---------------------------- MODULE Spec2Model ----------------------------
(***************************************************************************)
(* A model of the request lifecycle engine of the C++ backend server       *)
(* framework: the bounded thread pool (include/Threadpool.h,                *)
(* src/Threadpool.cpp), the accept loops, the per-connection task           *)
(* handleClient, the route table and the response serializer                *)
(* (src/Server.cpp, include/Server.h).                                      *)
(*                                                                         *)
(* C++ strings that the code inspects character by character (raw request  *)
(* buffers, methods, paths) are sequences of one-character strings.        *)
(* Strings the code only builds and measures (response bodies, messages)   *)
(* are TLA+ strings.                                                        *)
(***************************************************************************)
EXTENDS Integers, Sequences, FiniteSets, TLC

(***************************************************************************)
(* Bounds of the model.                                                    *)
(***************************************************************************)
\* number of worker threads given to ThreadPool's constructor
NumThreads == 2
\* capacity of the task queue (10000 in the source; a small stand-in here)
maxTasks_ == 1
\* number of addTask calls the callers of the pool specification make
MaxSubmit == 3
\* number of connections the accept loops accept
MaxConns == 2
\* number of get/post/put/del calls of the route table specification
MaxRoutes == 2
\* number of Response methods a handler calls on one Response
MaxCalls == 2
\* number of calls of Server::stop
MaxStops == 2
\* number of key=value pairs in a query string
MaxPairs == 2
\* number of Server objects the program constructs
MaxServers == 5

Workers == 1..NumThreads
\* the threads that call addTask: the IPv4 accept loop and the IPv6 one
Callers == {"ipv4", "ipv6"}
\* thread identities, as mtx_ records its owner
WorkerThread(w) == [role |-> "worker", idx |-> w]
CallerThread(c) == [role |-> c, idx |-> 0]
DtorThread == [role |-> "dtor", idx |-> 0]
NoThread == [role |-> "none", idx |-> 0]
\* a thread of the application: it registers routes, stops the server
AppThread == [role |-> "app", idx |-> 0]
TaskIds == 1..MaxSubmit
\* the accepted client sockets, numbered in the order accept() returns them
ConnIds == 1..MaxConns
\* identities of closures and of the connections handleClient closures carry
Ids == TaskIds \cup ConnIds
\* what a queued closure does when it is called
TaskKinds == {"returns", "throws_std", "throws_other"}
NoTask == [id |-> 0, kind |-> "none"]

VARIABLES
    tasks_,         \* ThreadPool::tasks_    : the FIFO queue of closures
    pool_running_,  \* ThreadPool::running_  : the pool accepts work
    mtx_,           \* ThreadPool::mtx_      : the thread holding it, or NoThread
    cvWaiting,      \* ThreadPool::cv_       : the workers blocked in cv_.wait
    wpc,            \* worker -> its position in the worker loop
    wtask,          \* worker -> the closure it moved out of the queue
    cpc,            \* caller -> its position in addTask
    carg,           \* caller -> the closure it is submitting
    cret,           \* caller -> what its last addTask returned, as a string
    dpc,            \* position of ~ThreadPool
    djoin,          \* index in threads_ of the thread ~ThreadPool joins next
    alive,          \* FALSE once the process has been terminated
    nextId,         \* the next closure's identity
    accepted,       \* identities of the closures addTask returned true for
    rejected,       \* identities of the closures addTask returned false for
    execCount,      \* identity -> how many times the closure was called
    caught,         \* worker -> it has caught an exception of a closure
    routes_,        \* Server::routes_      : method -> (path -> handler)
    lastReg,        \* <<method, path>> -> the handler last registered for it
    regCount,       \* number of registrations made
    srv_running_,   \* Server::running_
    serverSocket_,  \* Server::serverSocket_ : "fd4", or "-1"
    openFds,        \* the listening descriptors that are open
    lpc,            \* accept loop -> its position in run() / listenIPv6()
    lsock,          \* accept loop -> clientSocket of the current iteration
    conn,           \* client socket -> "unused", "open" or "closed"
    sent,           \* client socket -> what send() wrote to it
    hc,             \* worker -> the locals of the handleClient it is running
    res,            \* a Response object in the hands of a handler
    wire,           \* what buildResponse made of it
    ncalls,         \* number of Response methods the handler has called
    result,         \* Response::success : the map `result` it serialized last
    stopCalls,      \* number of calls of Server::stop so far
    stopCloses,     \* number of times stop() has called close(serverSocket_)
    stopPrints,     \* number of times stop() has printed "Server stopped."
    stopCaller,     \* the thread that made the last call of stop(), or NoThread
    routesMutex_,   \* Server::routesMutex_ : the thread that holds it, or NoThread
    rpc,            \* where the application thread is in get/post/put/del
    rarg,           \* the route that call registers
    fpc,            \* worker -> where it is in findHandler and the handler call
    logMutex_,      \* Server::logMutex_ : the thread that holds it, or NoThread
    lgpc,           \* worker -> where it is in the logging of handleClient
    fp,             \* Log::fp : the worker whose fopen() set it last, 0 at first
    fpOpen,         \* the FILE handles that are open, named by the worker that opened them
    logCount,       \* number of requests whose logging has begun
    recvd,          \* connection -> what recv() returned in handleClient
    pstage,         \* parseRequest alone: "idle", "received" or "parsed"
    pbuf,           \* the buffer handed to parseRequest
    preq,           \* the Request parseRequest returned
    bstage,         \* parseBody alone: "idle", "set" or "done"
    bhdr,           \* the value of the Request's Content-Type header
    bbody,          \* the Request's body
    bout,           \* how the call of parseBody ended
    wsub,           \* worker -> the closure its running closure is submitting
    sdpc,           \* position of ~Server and of the destruction of the members
    stpc,           \* thread -> its position in Server::stop, statement by statement
    instance_,      \* Server::instance_ : the Server it points to, 0 for nullptr
    serverState,    \* Server object -> "none", "live" or "destroyed"
    signalled       \* what signalHandler found when the signal came

poolVars == <<tasks_, pool_running_, mtx_, cvWaiting, wpc, wtask, cpc, carg,
              cret, dpc, djoin, alive, nextId, accepted, rejected, execCount,
              caught>>

routeVars == <<routes_, lastReg, regCount>>

srvVars ==
    <<srv_running_, serverSocket_, openFds, lpc, lsock, conn, sent, hc>>

respVars == <<res, wire, ncalls, result>>

stopVars == <<stopCalls, stopCloses, stopPrints, stopCaller>>

lockVars == <<routesMutex_, rpc, rarg, fpc>>

logVars == <<logMutex_, lgpc, fp, fpOpen, logCount>>

recvVars == <<recvd>>

parseVars == <<pstage, pbuf, preq>>

bodyVars == <<bstage, bhdr, bbody, bout>>

nestVars == <<wsub>>

sdtorVars == <<sdpc>>

raceVars == <<stpc>>

instVars == <<instance_, serverState, signalled>>

vars == <<poolVars, routeVars, srvVars, respVars, stopVars, lockVars, logVars,
          recvVars, parseVars, bodyVars, nestVars, sdtorVars, raceVars,
          instVars>>

(***************************************************************************)
(* ThreadPool: construction.                                               *)
(***************************************************************************)
\* ThreadPool::ThreadPool : running_(true), numThreads workers at the top of
\* their loop, an empty queue
PoolInit ==
    /\ tasks_ = <<>>
    /\ pool_running_ = TRUE
    /\ mtx_ = NoThread
    /\ cvWaiting = {}
    /\ wpc = [w \in Workers |-> "lock"]
    /\ wtask = [w \in Workers |-> NoTask]
    /\ cpc = [c \in Callers |-> "idle"]
    /\ carg = [c \in Callers |-> NoTask]
    /\ cret = [c \in Callers |-> "none"]
    /\ dpc = "constructed"
    /\ djoin = 1
    /\ alive = TRUE
    /\ nextId = 1
    /\ accepted = {}
    /\ rejected = {}
    /\ execCount = [i \in Ids |-> 0]
    /\ caught = [w \in Workers |-> FALSE]

(***************************************************************************)
(* ThreadPool::addTask.                                                    *)
(***************************************************************************)
\* the capacity check off by one: > where the code has >=
QueueFullOffByOne(q) == Len(q) > maxTasks_

\* if (tasks_.size() >= static_cast<size_t>(maxTasks_)) return false;
QueueFull(q) == Len(q) >= maxTasks_

\* addTask without its first check, if (!running_) return false;
AddTaskAcceptsWhenStopped(running, q) == ~QueueFull(q)

\* the value addTask returns for the flag and the queue it sees under mtx_
AddTaskAccepts(running, q) == running /\ ~QueueFull(q)

\* a queue that takes the closure at its head
EmplaceAtHead(q, t) == <<t>> \o q

\* tasks_.emplace(std::bind(f, args...)) : the closure goes to the tail
Emplace(q, t) == Append(q, t)

\* std::unique_lock<std::mutex> lock(mtx_) : the caller c takes the mutex
AddTaskLock(c, t) ==
    /\ alive
    /\ cpc[c] = "idle"
    /\ mtx_ = NoThread
    /\ mtx_' = CallerThread(c)
    /\ cpc' = [cpc EXCEPT ![c] = "locked"]
    /\ carg' = [carg EXCEPT ![c] = t]
    /\ UNCHANGED <<tasks_, pool_running_, cvWaiting, wpc, wtask, cret, dpc,
                   djoin, alive, accepted, rejected, execCount, caught>>

\* the two checks, then either return false (the lock's destructor unlocks)
\* or emplace and lock.unlock()
AddTaskCheck(c) ==
    /\ alive
    /\ cpc[c] = "locked"
    /\ mtx_ = CallerThread(c)
    /\ LET ok == AddTaskAccepts(pool_running_, tasks_)
           q2 == IF ok THEN Emplace(tasks_, carg[c]) ELSE tasks_
       IN /\ tasks_' = q2
          /\ mtx_' = NoThread
          /\ cpc' = [cpc EXCEPT ![c] = IF ok THEN "notify" ELSE "idle"]
          /\ cret' = [cret EXCEPT ![c] = IF ok THEN "none" ELSE "false"]
          /\ rejected' = IF ok THEN rejected ELSE rejected \cup {carg[c].id}
    /\ UNCHANGED <<pool_running_, cvWaiting, wpc, wtask, carg, dpc, djoin,
                   alive, nextId, accepted, execCount, caught>>
    /\ UNCHANGED <<routeVars, srvVars, respVars, stopVars, lockVars, logVars,
                   recvVars, parseVars, bodyVars, nestVars, sdtorVars, raceVars, instVars>>

\* a notification that reaches no waiting worker
NotifyOneLost(waiting, pcs) == {[waiting |-> waiting, pcs |-> pcs]}

\* cv_.notify_one() wakes one of the workers blocked in cv_.wait, if any
NotifyOne(waiting, pcs) ==
    IF waiting = {}
    THEN {[waiting |-> waiting, pcs |-> pcs]}
    ELSE {[waiting |-> waiting \ {w}, pcs |-> [pcs EXCEPT ![w] = "lock"]] :
             w \in waiting}

\* cv_.notify_one(); return true;  Once ~ThreadPool has returned cv_ is
\* destroyed and the call has undefined behaviour: it does nothing or it
\* terminates the process.
AddTaskNotify(c) ==
    /\ alive
    /\ cpc[c] = "notify"
    /\ \E n \in NotifyOne(cvWaiting, wpc) :
          /\ cvWaiting' = n.waiting
          /\ wpc' = n.pcs
    /\ alive' \in (IF dpc = "done" THEN {TRUE, FALSE} ELSE {TRUE})
    /\ cpc' = [cpc EXCEPT ![c] = "idle"]
    /\ cret' = [cret EXCEPT ![c] = "true"]
    /\ accepted' = accepted \cup {carg[c].id}
    /\ UNCHANGED <<tasks_, pool_running_, mtx_, wtask, carg, dpc, djoin,
                   nextId, rejected, execCount, caught>>
    /\ UNCHANGED <<routeVars, srvVars, respVars, stopVars, lockVars, logVars,
                   recvVars, parseVars, bodyVars, nestVars, sdtorVars, raceVars, instVars>>

(***************************************************************************)
(* ThreadPool: the worker loop.                                            *)
(***************************************************************************)
\* the predicate of cv_.wait: !running_ || !tasks_.empty()
WaitPredicate(running, q) == ~running \/ q # <<>>

\* the exit test on the flag alone: if (!running_) return;
WorkerMustExitOnFlag(running, q) == ~running

\* if (!running_ && tasks_.empty()) return;
WorkerMustExit(running, q) == ~running /\ q = <<>>

\* task = std::move(tasks_.front()); tasks_.pop();
Front(q) == Head(q)
\* the dequeue without tasks_.pop()
PopForgotten(q) == q
Pop(q) == Tail(q)

\* the worker loop with the first catch clause only
WorkerCatchesStdOnly(kind) == kind = "throws_std"

\* the catch clauses around task(): catch (const std::exception&) and
\* catch (...)
WorkerCatches(kind) == kind \in {"throws_std", "throws_other"}

Throws(kind) == kind \in {"throws_std", "throws_other"}

\* std::unique_lock<std::mutex> lock(mtx_) at the top of the loop, and the
\* re-acquisition of mtx_ by a worker that cv_.wait woke
WorkerLock(w) ==
    /\ alive
    /\ wpc[w] = "lock"
    /\ mtx_ = NoThread
    /\ mtx_' = WorkerThread(w)
    /\ wpc' = [wpc EXCEPT ![w] = "wait"]
    /\ UNCHANGED <<tasks_, pool_running_, cvWaiting, wtask, cpc, carg, cret,
                   dpc, djoin, alive, nextId, accepted, rejected, execCount,
                   caught>>
    /\ UNCHANGED <<routeVars, srvVars, respVars, stopVars, lockVars, logVars,
                   recvVars, parseVars, bodyVars, nestVars, sdtorVars, raceVars, instVars>>

\* cv_.wait(lock, pred) with the predicate false: the worker releases mtx_
\* and blocks on cv_
WorkerBlock(w) ==
    /\ alive
    /\ wpc[w] = "wait"
    /\ mtx_ = WorkerThread(w)
    /\ ~WaitPredicate(pool_running_, tasks_)
    /\ mtx_' = NoThread
    /\ cvWaiting' = cvWaiting \cup {w}
    /\ wpc' = [wpc EXCEPT ![w] = "blocked"]
    /\ UNCHANGED <<tasks_, pool_running_, wtask, cpc, carg, cret, dpc, djoin,
                   alive, nextId, accepted, rejected, execCount, caught>>
    /\ UNCHANGED <<routeVars, srvVars, respVars, stopVars, lockVars, logVars,
                   recvVars, parseVars, bodyVars, nestVars, sdtorVars, raceVars, instVars>>

\* a spurious wake-up of cv_.wait: the worker goes back to take mtx_ and
\* evaluate the predicate again
WorkerSpuriousWake(w) ==
    /\ alive
    /\ wpc[w] = "blocked"
    /\ w \in cvWaiting
    /\ cvWaiting' = cvWaiting \ {w}
    /\ wpc' = [wpc EXCEPT ![w] = "lock"]
    /\ UNCHANGED <<tasks_, pool_running_, mtx_, wtask, cpc, carg, cret, dpc,
                   djoin, alive, nextId, accepted, rejected, execCount,
                   caught>>
    /\ UNCHANGED <<routeVars, srvVars, respVars, stopVars, lockVars, logVars,
                   recvVars, parseVars, bodyVars, nestVars, sdtorVars, raceVars, instVars>>

\* the predicate holds, the pool is shut down and the queue is empty: return
WorkerExit(w) ==
    /\ alive
    /\ wpc[w] = "wait"
    /\ mtx_ = WorkerThread(w)
    /\ WaitPredicate(pool_running_, tasks_)
    /\ WorkerMustExit(pool_running_, tasks_)
    /\ mtx_' = NoThread
    /\ wpc' = [wpc EXCEPT ![w] = "exited"]
    /\ UNCHANGED <<tasks_, pool_running_, cvWaiting, wtask, cpc, carg, cret,
                   dpc, djoin, alive, nextId, accepted, rejected, execCount,
                   caught>>
    /\ UNCHANGED <<routeVars, srvVars, respVars, stopVars, lockVars, logVars,
                   recvVars, parseVars, bodyVars, nestVars, sdtorVars, raceVars, instVars>>

\* the worker loop with task() called inside the locked block: the dequeue
\* leaves mtx_ with the worker
WorkerDequeueKeepsLock(w) ==
    /\ alive
    /\ wpc[w] = "wait"
    /\ mtx_ = WorkerThread(w)
    /\ WaitPredicate(pool_running_, tasks_)
    /\ ~WorkerMustExit(pool_running_, tasks_)
    /\ tasks_ # <<>>
    /\ wtask' = [wtask EXCEPT ![w] = Front(tasks_)]
    /\ tasks_' = Pop(tasks_)
    /\ wpc' = [wpc EXCEPT ![w] = "run"]
    /\ UNCHANGED <<pool_running_, mtx_, cvWaiting, cpc, carg, cret, dpc, djoin,
                   alive, nextId, accepted, rejected, execCount, caught>>
    /\ UNCHANGED <<routeVars, srvVars, respVars, stopVars, lockVars, logVars,
                   recvVars, parseVars, bodyVars, nestVars, sdtorVars, raceVars, instVars>>

\* the predicate holds and the worker does not return: it moves the front
\* closure out of the queue, pops it and leaves the locked block
WorkerDequeue(w) ==
    /\ alive
    /\ wpc[w] = "wait"
    /\ mtx_ = WorkerThread(w)
    /\ WaitPredicate(pool_running_, tasks_)
    /\ ~WorkerMustExit(pool_running_, tasks_)
    /\ tasks_ # <<>>
    /\ wtask' = [wtask EXCEPT ![w] = Front(tasks_)]
    /\ tasks_' = Pop(tasks_)
    /\ mtx_' = NoThread
    /\ wpc' = [wpc EXCEPT ![w] = "run"]
    /\ UNCHANGED <<pool_running_, cvWaiting, cpc, carg, cret, dpc, djoin,
                   alive, nextId, accepted, rejected, execCount, caught>>
    /\ UNCHANGED <<routeVars, srvVars, respVars, stopVars, lockVars, logVars,
                   recvVars, parseVars, bodyVars, nestVars, sdtorVars, raceVars, instVars>>

\* try { task(); } catch ... : the closure is called; what it throws is
\* caught and reported, and the loop goes round.  An exception no clause
\* catches leaves the thread function: std::terminate ends the process.
WorkerRunTask(w) ==
    /\ alive
    /\ wpc[w] = "run"
    /\ wtask[w].kind \in TaskKinds
    /\ LET t == wtask[w]
           escapes == Throws(t.kind) /\ ~WorkerCatches(t.kind)
       IN /\ execCount' = [execCount EXCEPT ![t.id] = @ + 1]
          /\ caught' = [caught EXCEPT ![w] = @ \/ (Throws(t.kind) /\ ~escapes)]
          /\ alive' = ~escapes
          /\ wpc' = [wpc EXCEPT ![w] = IF escapes THEN "terminated" ELSE "lock"]
          /\ wtask' = [wtask EXCEPT ![w] = NoTask]
    /\ UNCHANGED <<tasks_, pool_running_, mtx_, cvWaiting, cpc, carg, cret,
                   dpc, djoin, nextId, accepted, rejected>>
    /\ UNCHANGED <<routeVars, srvVars, respVars, stopVars, lockVars, logVars,
                   recvVars, parseVars, bodyVars, nestVars, sdtorVars, raceVars, instVars>>

(***************************************************************************)
(* ThreadPool::~ThreadPool.                                                *)
(***************************************************************************)
\* the destructor calling cv_.notify_one() where the code has notify_all()
NotifyAllAsOne(waiting, pcs) == NotifyOne(waiting, pcs)

\* cv_.notify_all() wakes every worker blocked in cv_.wait
NotifyAll(waiting, pcs) ==
    {[waiting |-> {},
      pcs |-> [w \in Workers |-> IF w \in waiting THEN "lock" ELSE pcs[w]]]}

\* std::unique_lock<std::mutex> lock(mtx_);
DtorLock ==
    /\ alive
    /\ dpc = "constructed"
    /\ mtx_ = NoThread
    /\ mtx_' = DtorThread
    /\ dpc' = "locked"
    /\ UNCHANGED <<tasks_, pool_running_, cvWaiting, wpc, wtask, cpc, carg,
                   cret, djoin, alive, nextId, accepted, rejected, execCount,
                   caught>>
    /\ UNCHANGED <<routeVars, srvVars, respVars, stopVars, lockVars, logVars,
                   recvVars, parseVars, bodyVars, nestVars, sdtorVars, raceVars, instVars>>

\* running_ = false; cv_.notify_all(); lock.unlock();
DtorStop ==
    /\ alive
    /\ dpc = "locked"
    /\ mtx_ = DtorThread
    /\ pool_running_' = FALSE
    /\ \E n \in NotifyAll(cvWaiting, wpc) :
          /\ cvWaiting' = n.waiting
          /\ wpc' = n.pcs
    /\ mtx_' = NoThread
    /\ dpc' = "joining"
    /\ djoin' = 1
    /\ UNCHANGED <<tasks_, wtask, cpc, carg, cret, alive, nextId, accepted,
                   rejected, execCount, caught>>
    /\ UNCHANGED <<routeVars, srvVars, respVars, stopVars, lockVars, logVars,
                   recvVars, parseVars, bodyVars, nestVars, sdtorVars, raceVars, instVars>>

\* for (std::thread &thread : threads_) if (thread.joinable()) thread.join();
\* join returns once the thread has left its thread function
DtorJoin ==
    /\ alive
    /\ dpc = "joining"
    /\ djoin \in Workers
    /\ wpc[djoin] = "exited"
    /\ djoin' = djoin + 1
    /\ dpc' = IF djoin = NumThreads THEN "done" ELSE "joining"
    /\ UNCHANGED <<tasks_, pool_running_, mtx_, cvWaiting, wpc, wtask, cpc,
                   carg, cret, alive, nextId, accepted, rejected, execCount,
                   caught>>
    /\ UNCHANGED <<routeVars, srvVars, respVars, stopVars, lockVars, logVars,
                   recvVars, parseVars, bodyVars, nestVars, sdtorVars, raceVars, instVars>>

(***************************************************************************)
(* The pool on its own: callers submit closures of every kind while the    *)
(* pool object exists, and the pool is destroyed at any moment.            *)
(***************************************************************************)
\* the closures the callers submit, in turn: one that returns, one that
\* throws a std::exception, one that throws something else
KindOf(i) ==
    CASE i % 3 = 1 -> "returns"
      [] i % 3 = 2 -> "throws_std"
      [] OTHER -> "throws_other"

Submit(c) ==
    /\ nextId <= MaxSubmit
    /\ dpc # "done"
    /\ AddTaskLock(c, [id |-> nextId, kind |-> KindOf(nextId)])
    /\ nextId' = nextId + 1
    /\ UNCHANGED <<routeVars, srvVars, respVars, stopVars, lockVars, logVars,
                   recvVars, parseVars, bodyVars, nestVars, sdtorVars, raceVars, instVars>>

PoolNext ==
    \/ \E c \in Callers : Submit(c)
    \/ \E c \in Callers : AddTaskCheck(c)
    \/ \E c \in Callers : AddTaskNotify(c)
    \/ \E w \in Workers : WorkerLock(w)
    \/ \E w \in Workers : WorkerBlock(w)
    \/ \E w \in Workers : WorkerSpuriousWake(w)
    \/ \E w \in Workers : WorkerExit(w)
    \/ \E w \in Workers : WorkerDequeue(w)
    \/ \E w \in Workers : WorkerRunTask(w)
    \/ DtorLock
    \/ DtorStop
    \/ DtorJoin



(***************************************************************************)
(* Server::parseRequest: the request line.                                 *)
(***************************************************************************)
\* the characters operator>> skips and stops at (std::isspace)
Whitespace == {" ", "\t", "\n", "\r"}

\* std::string::find(ch): the first position of ch in s, 0 when there is none
Find(s, ch) ==
    IF \E i \in 1..Len(s) : s[i] = ch
    THEN CHOOSE i \in 1..Len(s) : s[i] = ch /\ \A j \in 1..(i - 1) : s[j] # ch
    ELSE 0

\* std::getline(iss, line) on the whole buffer: the characters before the
\* first line feed (all of them when there is none)
FirstLine(s) ==
    IF Find(s, "\n") = 0 THEN s ELSE SubSeq(s, 1, Find(s, "\n") - 1)

\* s without its leading whitespace
SkipWhitespace(s) ==
    IF \E i \in 1..Len(s) : s[i] \notin Whitespace
    THEN LET i == CHOOSE k \in 1..Len(s) :
                     s[k] \notin Whitespace
                     /\ \A j \in 1..(k - 1) : s[j] \in Whitespace
         IN SubSeq(s, i, Len(s))
    ELSE <<>>

\* the characters of s before its first whitespace
UntilWhitespace(s) ==
    IF \E i \in 1..Len(s) : s[i] \in Whitespace
    THEN LET i == CHOOSE k \in 1..Len(s) :
                     s[k] \in Whitespace
                     /\ \A j \in 1..(k - 1) : s[j] \notin Whitespace
         IN SubSeq(s, 1, i - 1)
    ELSE s

\* lineStream >> token: the next whitespace-delimited token of s and what
\* follows it
ExtractToken(s) ==
    LET t == UntilWhitespace(SkipWhitespace(s))
    IN [token |-> t,
        rest |-> SubSeq(SkipWhitespace(s), Len(t) + 1, Len(SkipWhitespace(s)))]

\* the target cut at its last '?'
StripQueryAtLast(target) ==
    IF Find(target, "?") = 0 THEN target
    ELSE LET i == CHOOSE k \in 1..Len(target) :
                     target[k] = "?"
                     /\ \A j \in (k + 1)..Len(target) : target[j] # "?"
         IN SubSeq(target, 1, i - 1)

\* path without the query: request.path.substr(0, queryPos)
StripQuery(target) ==
    IF Find(target, "?") = 0 THEN target
    ELSE SubSeq(target, 1, Find(target, "?") - 1)

\* the query: request.path.substr(queryPos + 1)
QueryOf(target) ==
    IF Find(target, "?") = 0 THEN <<>>
    ELSE SubSeq(target, Find(target, "?") + 1, Len(target))

\* std::getline(iss, line, delim) called until it fails: the pieces of s
\* between the delimiters, each with iss.eof() as it is after that call.
\* Nothing after the last delimiter gives no further piece.
RECURSIVE GetLines(_, _)
GetLines(s, delim) ==
    IF s = <<>> THEN <<>>
    ELSE LET i == Find(s, delim)
         IN IF i = 0 THEN << [line |-> s, eof |-> TRUE] >>
            ELSE << [line |-> SubSeq(s, 1, i - 1), eof |-> FALSE] >>
                    \o GetLines(SubSeq(s, i + 1, Len(s)), delim)

\* isHexChar and hexToByte of Server::urlDecode
HexValue ==
    [c \in {"0", "1", "2", "3", "4", "5", "6", "7", "8", "9"} |->
        CHOOSE n \in 0..9 : ToString(n) = c]
    @@ ("a" :> 10) @@ ("b" :> 11) @@ ("c" :> 12) @@ ("d" :> 13)
    @@ ("e" :> 14) @@ ("f" :> 15)
    @@ ("A" :> 10) @@ ("B" :> 11) @@ ("C" :> 12) @@ ("D" :> 13)
    @@ ("E" :> 14) @@ ("F" :> 15)

isHexChar(c) == c \in DOMAIN HexValue

\* static_cast<char>(byte): the character with that code
ByteChar(byte) ==
    CASE byte = 32 -> " "
      [] byte = 37 -> "%"
      [] byte = 38 -> "&"
      [] byte = 43 -> "+"
      [] byte = 61 -> "="
      [] byte = 63 -> "?"
      [] byte = 65 -> "A"
      [] byte = 97 -> "a"
      [] OTHER -> "\\x" \o ToString(byte)

\* Server::urlDecode, from position i of value on: '+' gives a space, '%'
\* followed by two more characters gives the byte they spell when both are
\* hex digits and stays a '%' when they are not, anything else is copied
RECURSIVE urlDecodeFrom(_, _)
urlDecodeFrom(value, i) ==
    IF i > Len(value) THEN <<>>
    ELSE IF value[i] = "+" THEN <<" ">> \o urlDecodeFrom(value, i + 1)
    ELSE IF value[i] = "%" /\ i + 2 <= Len(value)
         THEN IF ~isHexChar(value[i + 1]) \/ ~isHexChar(value[i + 2])
              THEN <<"%">> \o urlDecodeFrom(value, i + 1)
              ELSE <<ByteChar(HexValue[value[i + 1]] * 16
                                 + HexValue[value[i + 2]])>>
                      \o urlDecodeFrom(value, i + 3)
    ELSE <<value[i]>> \o urlDecodeFrom(value, i + 1)

urlDecode(value) == urlDecodeFrom(value, 1)

\* the loop of Server::parseQueryParams over the pieces between '&': a piece
\* with an '=' sets params[key] = urlDecode(value), a piece without is
\* skipped
RECURSIVE Params(_, _)
Params(pairs, params) ==
    IF pairs = <<>> THEN params
    ELSE LET pair == Head(pairs).line
             pos == Find(pair, "=")
         IN Params(Tail(pairs),
               IF pos = 0 THEN params
               ELSE (SubSeq(pair, 1, pos - 1)
                        :> urlDecode(SubSeq(pair, pos + 1, Len(pair))))
                    @@ params)

parseQueryParams(query) == Params(GetLines(query, "&"), <<>>)

\* the loop of parseRequest over the lines after the request line: an empty
\* line or a lone "\r" sets inBody and is skipped, wherever it comes; after
\* that every other line is appended to the body, with a "\n" unless the
\* stream is at its end
RECURSIVE Body(_, _)
Body(lines, inBody) ==
    IF lines = <<>> THEN <<>>
    ELSE LET l == Head(lines)
         IN IF l.line = <<>> \/ l.line = <<"\r">>
            THEN Body(Tail(lines), TRUE)
            ELSE IF ~inBody THEN Body(Tail(lines), FALSE)
            ELSE l.line \o (IF l.eof THEN <<>> ELSE <<"\n">>)
                    \o Body(Tail(lines), TRUE)

\* parseRequest: getline, lineStream >> request.method >> request.path, the
\* split at the first '?' with the query parsed into queryParams, then the
\* remaining lines.  A buffer with no characters gives no line and leaves
\* the Request empty.
parseRequest(requestStr) ==
    LET lines == GetLines(requestStr, "\n")
        line == FirstLine(requestStr)
        first == ExtractToken(line)
        second == ExtractToken(first.rest)
    IN IF requestStr = <<>>
       THEN [method |-> <<>>, path |-> <<>>, query |-> <<>>,
             queryParams |-> <<>>, body |-> <<>>]
       ELSE [method |-> first.token,
             path |-> StripQuery(second.token),
             query |-> QueryOf(second.token),
             queryParams |-> IF Find(second.token, "?") = 0 THEN <<>>
                             ELSE parseQueryParams(QueryOf(second.token)),
             body |-> Body(Tail(lines), FALSE)]

(***************************************************************************)
(* Response (include/Server.h) and Server::buildResponse.                  *)
(***************************************************************************)
JsonContentType == "application/json; charset=utf-8"

\* Response::Response: statusCode = 200, the default Content-Type, no body
NewResponse ==
    [statusCode |-> 200,
     headers |-> ("Content-Type" :> JsonContentType),
     body |-> ""]

\* Response::json: body = jsonStr; headers["Content-Type"] = ...
json(resp, jsonStr) ==
    [resp EXCEPT !.body = jsonStr,
                 !.headers = ("Content-Type" :> JsonContentType) @@ @]

\* the body Response::error builds around its message
FailBody(message) == "{\"status\":\"fail\", \"message\":\"" \o message \o "\"}"

\* Response::error: statusCode = code; json(fail body)
error(resp, code, message) ==
    json([resp EXCEPT !.statusCode = code], FailBody(message))

\* Response::success(): json of the fixed success body
success(resp) == json(resp, "{\"status\":\"ok\", \"message\":\"Success\"}")

\* the keys of the maps handlers pass to success, in std::map's iteration
\* order (ascending), and the values they hold
KeyOrder == <<"id", "message", "status">>
DataKeys == {KeyOrder[i] : i \in DOMAIN KeyOrder}
DataValues == {"1", "fail"}
DataMaps == UNION {[S -> DataValues] : S \in SUBSET DataKeys}
\* no map: the method called last was not a success overload
NoResult == [k \in {} |-> ""]

\* the members "key":"value" of a map, in iteration order from the i-th key
RECURSIVE Members(_, _)
Members(mp, i) ==
    IF i > Len(KeyOrder) THEN <<>>
    ELSE (IF KeyOrder[i] \in DOMAIN mp
            THEN <<"\"" \o KeyOrder[i] \o "\":\"" \o mp[KeyOrder[i]] \o "\"">>
            ELSE <<>>) \o Members(mp, i + 1)

RECURSIVE Joined(_)
Joined(members) ==
    IF members = <<>> THEN ""
    ELSE IF Len(members) = 1 THEN members[1]
    ELSE members[1] \o "," \o Joined(Tail(members))

\* mpToJson: "{", every pair followed by a comma, pop_back, "}"; pop_back
\* takes the brace of an empty map
mpToJson(mp) ==
    IF DOMAIN mp = {} THEN "}" ELSE "{" \o Joined(Members(mp, 1)) \o "}"

\* toJson(map<string, JsonValue>) of string values free of characters that
\* escapeJsonString rewrites: JsonValue::toJson, case OBJECT
toJson(obj) == "{" \o Joined(Members(obj, 1)) \o "}"

\* result of success(const std::map<std::string, std::string>&): a copy of
\* resMap, then result["status"] = "ok"; result["message"] = "Success"
successStringResult(resMap) ==
    ("status" :> "ok") @@ ("message" :> "Success") @@ resMap

\* result of success(const std::map<std::string, JsonValue>&): status and
\* message first, then every pair of resMap assigned over them
successJsonResult(resMap) ==
    resMap @@ ("status" :> "ok") @@ ("message" :> "Success")

\* what the literal of success() states
successResult == ("status" :> "ok") @@ ("message" :> "Success")

successString(resp, resMap) == json(resp, mpToJson(successStringResult(resMap)))
successJson(resp, resMap) == json(resp, toJson(successJsonResult(resMap)))

\* Response::text: body = textStr; headers["Content-Type"] = text/plain
text(resp, textStr) ==
    [resp EXCEPT !.body = textStr,
                 !.headers = ("Content-Type" :> "text/plain; charset=utf-8") @@ @]

\* Response::status
status(resp, code) == [resp EXCEPT !.statusCode = code]

\* the file a handler serves and what it holds
FilePath == "f.bin"
FileData == "DATA"
\* what opening and reading the file can come to
FileOutcomes == {"missing", "empty", "unreadable", "ok"}

\* Response::file with the default mimeType, isAttachment and customFileName
file(resp, outcome) ==
    CASE outcome = "missing" -> error(resp, 404, "File not found: " \o FilePath)
      [] outcome = "empty" -> error(resp, 400, "File is empty: " \o FilePath)
      [] outcome = "unreadable" ->
            error(resp, 500, "Failed to read file: " \o FilePath)
      [] OTHER ->
            [statusCode |-> 200,
             body |-> FileData,
             headers |->
                 ("Content-Type" :> "application/octet-stream"
                  @@ "Content-Length" :> ToString(Len(FileData))
                  @@ "Content-Transfer-Encoding" :> "binary"
                  @@ "Content-Disposition" :>
                         ("attachment; filename=\"" \o FilePath \o "\""))
                 @@ resp.headers]

\* the switch of buildResponse
ReasonPhrase(code) ==
    CASE code = 200 -> "OK"
      [] code = 201 -> "Created"
      [] code = 400 -> "Bad Request"
      [] code = 404 -> "Not Found"
      [] code = 500 -> "Internal Server Error"
      [] OTHER -> "Unknown"

\* the CORS lines without Access-Control-Allow-Origin
CorsHeadersNoOrigin ==
    <<"Access-Control-Allow-Methods: GET, POST, PUT, DELETE, OPTIONS",
      "Access-Control-Allow-Headers: Content-Type, Authorization, X-Requested-With",
      "Access-Control-Max-Age: 86400">>

\* the four CORS header lines buildResponse writes
CorsHeaders ==
    <<"Access-Control-Allow-Origin: *",
      "Access-Control-Allow-Methods: GET, POST, PUT, DELETE, OPTIONS",
      "Access-Control-Allow-Headers: Content-Type, Authorization, X-Requested-With",
      "Access-Control-Max-Age: 86400">>

\* the header names Response methods set, in the order std::map iterates
HeaderNames ==
    <<"Content-Disposition", "Content-Length", "Content-Transfer-Encoding",
      "Content-Type">>

\* for (const auto& header : response.headers) oss << first << ": " << second
HeaderLines(headers) ==
    LET present == SelectSeq(HeaderNames, LAMBDA n : n \in DOMAIN headers)
    IN [i \in 1..Len(present) |-> present[i] \o ": " \o headers[present[i]]]

\* buildResponse: the lines written before the blank line, each ended by
\* CRLF on the wire, and the body written after it
buildResponse(response) ==
    [lines |-> <<"HTTP/1.1 " \o ToString(response.statusCode) \o " "
                    \o ReasonPhrase(response.statusCode)>>
               \o CorsHeaders
               \o HeaderLines(response.headers)
               \o <<"Content-Length: " \o ToString(Len(response.body))>>,
     body |-> response.body]

(***************************************************************************)
(* The route table: Server::get/post/put/del and Server::findHandler.      *)
(***************************************************************************)
GET == <<"G", "E", "T">>
POST == <<"P", "O", "S", "T">>
PUT == <<"P", "U", "T">>
DELETE == <<"D", "E", "L", "E", "T", "E">>
OPTIONS == <<"O", "P", "T", "I", "O", "N", "S">>

\* the handlers user code registers
Handlers == {"h1", "h2", "h3"}
\* the empty Handler findHandler returns for a miss
NullHandler == "nullptr"

\* a registration that replaces the method's whole table
RegisterAlone(routes, method, path, handler) ==
    (method :> (path :> handler)) @@ routes

\* routes_[method][path] = std::move(handler)
Register(routes, method, path, handler) ==
    LET old == IF method \in DOMAIN routes THEN routes[method] ELSE <<>>
    IN (method :> ((path :> handler) @@ old)) @@ routes

\* q is the beginning of p
IsPrefix(q, p) == Len(q) <= Len(p) /\ SubSeq(p, 1, Len(q)) = q

\* a lookup that takes a registered path that begins the requested one
findHandlerByPrefix(routes, method, path) ==
    IF method \in DOMAIN routes
          /\ \E q \in DOMAIN routes[method] : IsPrefix(q, path)
    THEN routes[method][CHOOSE q \in DOMAIN routes[method] : IsPrefix(q, path)]
    ELSE NullHandler

\* Server::findHandler: the handler stored for exactly this method and this
\* path, nullptr otherwise
findHandler(routes, method, path) ==
    IF method \in DOMAIN routes
    THEN IF path \in DOMAIN routes[method]
         THEN routes[method][path]
         ELSE NullHandler
    ELSE NullHandler

\* Server::get / post / put / del, each under routesMutex_
get(path, handler) ==
    /\ routesMutex_ = NoThread
    /\ routes_' = Register(routes_, GET, path, handler)
    /\ lastReg' = (<<GET, path>> :> handler) @@ lastReg
    /\ regCount' = regCount + 1
    /\ UNCHANGED <<poolVars, srvVars, respVars, stopVars, lockVars, logVars,
                   recvVars, parseVars, bodyVars, nestVars, sdtorVars, raceVars, instVars>>

post(path, handler) ==
    /\ routesMutex_ = NoThread
    /\ routes_' = Register(routes_, POST, path, handler)
    /\ lastReg' = (<<POST, path>> :> handler) @@ lastReg
    /\ regCount' = regCount + 1
    /\ UNCHANGED <<poolVars, srvVars, respVars, stopVars, lockVars, logVars,
                   recvVars, parseVars, bodyVars, nestVars, sdtorVars, raceVars, instVars>>

put(path, handler) ==
    /\ routesMutex_ = NoThread
    /\ routes_' = Register(routes_, PUT, path, handler)
    /\ lastReg' = (<<PUT, path>> :> handler) @@ lastReg
    /\ regCount' = regCount + 1
    /\ UNCHANGED <<poolVars, srvVars, respVars, stopVars, lockVars, logVars,
                   recvVars, parseVars, bodyVars, nestVars, sdtorVars, raceVars, instVars>>

del(path, handler) ==
    /\ routesMutex_ = NoThread
    /\ routes_' = Register(routes_, DELETE, path, handler)
    /\ lastReg' = (<<DELETE, path>> :> handler) @@ lastReg
    /\ regCount' = regCount + 1
    /\ UNCHANGED <<poolVars, srvVars, respVars, stopVars, lockVars, logVars,
                   recvVars, parseVars, bodyVars, nestVars, sdtorVars, raceVars, instVars>>

(***************************************************************************)
(* Server::handleClient: dispatch.                                         *)
(***************************************************************************)
\* what a call of a handler can do: return after res.success(), throw a
\* std::runtime_error("boom"), or throw a value that is not a std::exception
HandlerOutcomes == {"returns", "throws_std", "throws_other"}

\* handler(request, response): the response it leaves and what it throws
InvokeHandler(outcome, resp) ==
    CASE outcome = "returns" -> [resp |-> success(resp), threw |-> "none", what |-> ""]
      [] outcome = "throws_std" -> [resp |-> resp, threw |-> "std", what |-> "boom"]
      [] OTHER -> [resp |-> resp, threw |-> "other", what |-> ""]

\* the only catch clause around handler(request, response):
\* catch (const std::exception& e)
HandleClientCatches(threw) == threw = "std"

\* a preflight answer of 204 where the code answers 200
OptionsResponseNoContent(resp) == [resp EXCEPT !.statusCode = 204, !.body = ""]

\* if (request.method == "OPTIONS") { statusCode = 200; body = ""; }
OptionsResponse(resp) == [resp EXCEPT !.statusCode = 200, !.body = ""]

\* the miss branch without its call of response.error
NotFoundResponseNoBody(resp) == [resp EXCEPT !.statusCode = 404]

\* response.statusCode = 404; response.error(404, "Resource not found");
NotFoundResponse(resp) ==
    error([resp EXCEPT !.statusCode = 404], 404, "Resource not found")

\* response.statusCode = 500; response.error(500, "error: " + e.what());
HandlerErrorResponse(resp, what) ==
    error([resp EXCEPT !.statusCode = 500], 500, "error: " \o what)

\* the if/else of handleClient between parseRequest and buildResponse:
\* the response, the number of findHandler calls, the handler called, what
\* it threw, and whether the exception left handleClient
Dispatch(routes, request, outcome) ==
    IF request.method = OPTIONS
    THEN [resp |-> OptionsResponse(NewResponse), lookups |-> 0,
          invoked |-> NullHandler, threw |-> "none", escaped |-> FALSE]
    ELSE LET handler == findHandler(routes, request.method, request.path)
             r == InvokeHandler(outcome, NewResponse)
         IN IF handler # NullHandler
            THEN [resp |-> IF r.threw = "none" THEN r.resp
                           ELSE HandlerErrorResponse(r.resp, r.what),
                  lookups |-> 1, invoked |-> handler, threw |-> r.threw,
                  escaped |-> r.threw # "none" /\ ~HandleClientCatches(r.threw)]
            ELSE [resp |-> NotFoundResponse(NewResponse), lookups |-> 1,
                  invoked |-> NullHandler, threw |-> "none", escaped |-> FALSE]

(***************************************************************************)
(* Server: construction.                                                   *)
(***************************************************************************)
NoRequest ==
    [method |-> <<>>, path |-> <<>>, query |-> <<>>, queryParams |-> <<>>,
     body |-> <<>>]
\* nothing written to a socket
NoWire == [lines |-> <<>>, body |-> ""]
\* a worker that is not inside handleClient
NoHandleClient ==
    [pc |-> "none", req |-> NoRequest, resp |-> NewResponse, lookups |-> 0,
     invoked |-> NullHandler, threw |-> "none"]

\* Server::Server : serverSocket_(-1), running_(false), the pool constructed,
\* no route registered, no connection yet
ServerInit ==
    /\ routes_ = <<>>
    /\ lastReg = <<>>
    /\ regCount = 0
    /\ srv_running_ = FALSE
    /\ serverSocket_ = "-1"
    /\ openFds = {}
    /\ lpc = [l \in Callers |-> IF l = "ipv4" THEN "created" ELSE "off"]
    /\ lsock = [l \in Callers |-> 0]
    /\ conn = [c \in ConnIds |-> "unused"]
    /\ sent = [c \in ConnIds |-> NoWire]
    /\ hc = [w \in Workers |-> NoHandleClient]
    /\ stopCalls = 0
    /\ stopCloses = 0
    /\ stopPrints = 0
    /\ stopCaller = NoThread
    /\ recvd = [c \in ConnIds |-> "none"]

\* a Response as handleClient constructs it, before the handler is called
ResponseInit ==
    /\ res = NewResponse
    /\ wire = NoWire
    /\ ncalls = 0
    /\ result = NoResult

NoRoute == [method |-> "", path |-> <<>>, handler |-> NullHandler]

NoFind == [pc |-> "idle", method |-> "", path |-> <<>>, found |-> NullHandler]

\* nobody holds routesMutex_, nobody is registering or looking up
LockInit ==
    /\ routesMutex_ = NoThread
    /\ rpc = "idle"
    /\ rarg = NoRoute
    /\ fpc = [w \in Workers |-> NoFind]

\* nobody holds logMutex_, nobody is logging, the log file is not open
LogInit ==
    /\ logMutex_ = NoThread
    /\ lgpc = [w \in Workers |-> "idle"]
    /\ fp = 0
    /\ fpOpen = {}
    /\ logCount = 0

\* no buffer has been received
ParseInit ==
    /\ pstage = "idle"
    /\ pbuf = <<>>
    /\ preq = NoRequest

\* a Request as its constructor leaves it: no header, no body
BodyInit ==
    /\ bstage = "idle"
    /\ bhdr = <<>>
    /\ bbody = <<>>
    /\ bout = "none"

\* no closure has called addTask
NestInit == wsub = [w \in Workers |-> NoTask]

\* the Server exists
ServerDtorInit == sdpc = "constructed"

\* the threads that call stop(): the thread inside run(), interrupted by
\* signalHandler, and a thread of the application
Stoppers == {CallerThread("ipv4"), AppThread}

\* no thread is inside stop()
StopRaceInit == stpc = [t \in Stoppers |-> "out"]

\* the Server objects the program constructs, in turn
ServerIds == 1..MaxServers

\* Server* Server::instance_ = nullptr; and no Server constructed yet
InstanceInit ==
    /\ instance_ = 0
    /\ serverState = [s \in ServerIds |-> "none"]
    /\ signalled = "no"

Init ==
    /\ PoolInit
    /\ ServerInit
    /\ ResponseInit
    /\ LockInit
    /\ LogInit
    /\ ParseInit
    /\ BodyInit
    /\ NestInit
    /\ ServerDtorInit
    /\ StopRaceInit
    /\ InstanceInit

SpecPool == Init /\ [][PoolNext]_vars

\* Threads are scheduled: a thread that can take a step of the code it is in
\* eventually takes it, and every closure, once called, returns or throws.
\* No caller has to submit, nobody has to destroy the pool, and no wake-up
\* has to be spurious.
PoolFairness ==
    /\ \A c \in Callers : WF_vars(AddTaskCheck(c)) /\ WF_vars(AddTaskNotify(c))
    /\ \A w \in Workers :
          /\ WF_vars(WorkerLock(w))
          /\ WF_vars(WorkerBlock(w))
          /\ WF_vars(WorkerExit(w))
          /\ WF_vars(WorkerDequeue(w))
          /\ WF_vars(WorkerRunTask(w))
    /\ WF_vars(DtorStop)
    /\ WF_vars(DtorJoin)

FairSpecPool == Init /\ [][PoolNext]_vars /\ PoolFairness

(***************************************************************************)
(* The thread pool's properties.                                           *)
(***************************************************************************)
\* the caller c leaves the locked block of addTask in this step
AddTaskDecides(c) == cpc[c] = "locked" /\ cpc'[c] # "locked"

\* C1: the queue never holds more than maxTasks_ closures, and an addTask
\* that finds maxTasks_ closures queued returns false in that very step,
\* leaving the queue as it was.
C1_QueueBounded ==
    /\ [](Len(tasks_) <= maxTasks_)
    /\ [][\A c \in Callers :
            (AddTaskDecides(c) /\ Len(tasks_) >= maxTasks_)
                => /\ cpc'[c] = "idle"
                   /\ cret'[c] = "false"
                   /\ tasks_' = tasks_]_vars

\* a caller was refused by a running pool whose queue is full
C1_Witness ==
    /\ pool_running_
    /\ Len(tasks_) = maxTasks_
    /\ \E c \in Callers : cpc[c] = "idle" /\ cret[c] = "false"

\* the identities of the closures in the queue
QueuedIds == {tasks_[i].id : i \in 1..Len(tasks_)}
\* the identities of the closures the workers hold
HeldIds == {wtask[w].id : w \in {x \in Workers : wpc[x] = "run"}}

\* C2: addTask returns true exactly when running_ is true and the queue is
\* below capacity; then the closure is appended at the tail; when it returns
\* false the queue is unchanged and the closure is never called.
C2_AddTaskResult ==
    /\ [][\A c \in Callers :
            /\ AddTaskDecides(c) =>
                  IF pool_running_ /\ Len(tasks_) < maxTasks_
                  THEN /\ tasks_' = tasks_ \o <<carg[c]>>
                       /\ cpc'[c] = "notify"
                  ELSE /\ tasks_' = tasks_
                       /\ cpc'[c] = "idle"
                       /\ cret'[c] = "false"
            /\ (cpc[c] = "notify" /\ cpc'[c] # "notify") => cret'[c] = "true"]_vars
    /\ [](\A i \in rejected :
            /\ execCount[i] = 0
            /\ i \notin QueuedIds \cup HeldIds \cup accepted)

\* a caller holds false from a pool that was shut down: too few closures
\* were submitted for the queue to have been full
C2_Witness ==
    /\ ~pool_running_
    /\ rejected # {}
    /\ nextId <= maxTasks_ + 1
    /\ \E c \in Callers : cpc[c] = "idle" /\ cret[c] = "false"

\* C3: a closure addTask accepted is called exactly once, by one worker: no
\* closure is called twice, no two workers hold the same queue entry, and
\* when ~ThreadPool has returned every accepted closure has been called once.
C3_ExactlyOnce ==
    /\ \A i \in TaskIds : execCount[i] <= 1
    /\ \A i \in TaskIds : execCount[i] = 1 => i \notin QueuedIds \cup HeldIds
    /\ \A w1, w2 \in Workers :
          (w1 # w2 /\ wpc[w1] = "run" /\ wpc[w2] = "run")
              => wtask[w1].id # wtask[w2].id
    /\ \A i, j \in 1..Len(tasks_) : i # j => tasks_[i].id # tasks_[j].id
    /\ QueuedIds \cap HeldIds = {}
    /\ dpc = "done" => \A i \in accepted : execCount[i] = 1

\* the pool is destroyed and two accepted closures have each run once
C3_Witness ==
    /\ dpc = "done"
    /\ Cardinality(accepted) >= 2
    /\ \A i \in accepted : execCount[i] = 1

\* C4: a worker that finishes a closure that threw is back at the top of
\* its loop and the process lives.
C4_ThrowingTaskIsolated ==
    [][\A w \in Workers :
         (wpc[w] = "run" /\ Throws(wtask[w].kind) /\ wpc'[w] # "run")
             => (wpc'[w] = "lock" /\ alive')]_vars

\* a worker that caught an exception is calling a later closure
C4_Witness ==
    \E w \in Workers : caught[w] /\ wpc[w] = "run" /\ alive

\* C5: ~ThreadPool returns only when every worker has exited; a worker exits
\* only from the locked block, with the flag cleared and the queue empty
\* (never out of a closure it is calling); and once the flag is cleared and
\* the waiters notified, ~ThreadPool eventually returns.
C5_Shutdown ==
    /\ [](dpc = "done" => \A w \in Workers : wpc[w] = "exited")
    /\ [][\A w \in Workers :
            (wpc[w] # "exited" /\ wpc'[w] = "exited")
                => (wpc[w] = "wait" /\ ~pool_running_ /\ tasks_ = <<>>)]_vars
    /\ (dpc = "joining") ~> (dpc = "done")

\* the pool is shutting down: one worker has exited while another is still
\* calling a closure
C5_Witness ==
    /\ dpc = "joining"
    /\ \E w1, w2 \in Workers : wpc[w1] = "exited" /\ wpc[w2] = "run"


(***************************************************************************)
(* Route registration and lookup, on their own: user code registers        *)
(* handlers in any order, for any method, at any of the paths.             *)
(***************************************************************************)
\* the paths user code registers
RegPaths == {<<"/", "u">>, <<"/", "u", "/">>}
\* the paths and methods requests ask for
LookupPaths == RegPaths \cup {<<"/", "u", "/", "1">>, <<"/">>}
LookupMethods == {GET, POST, PUT, DELETE, OPTIONS, <<"g", "e", "t">>}

RoutesNext ==
    \/ \E p \in RegPaths, h \in Handlers : regCount < MaxRoutes /\ get(p, h)
    \/ \E p \in RegPaths, h \in Handlers : regCount < MaxRoutes /\ post(p, h)
    \/ \E p \in RegPaths, h \in Handlers : regCount < MaxRoutes /\ put(p, h)
    \/ \E p \in RegPaths, h \in Handlers : regCount < MaxRoutes /\ del(p, h)

SpecRoutes == Init /\ [][RoutesNext]_vars

\* C8: after any sequence of registrations, findHandler(method, path)
\* returns a handler exactly when one was registered for that very method
\* and that very path, and then it is the one registered last; a handler
\* registered at /u is not returned for /u/ or /u/1, nor for /u under
\* another method.
C8_ExactMatchDispatch ==
    \A m \in LookupMethods, p \in LookupPaths :
        findHandler(routes_, m, p) =
            IF <<m, p>> \in DOMAIN lastReg THEN lastReg[<<m, p>>] ELSE NullHandler

\* a handler is registered for GET /u only, and the lookups of GET /u/,
\* GET /u/1 and POST /u miss
C8_Witness ==
    /\ DOMAIN lastReg = {<<GET, <<"/", "u">>>>}
    /\ findHandler(routes_, GET, <<"/", "u">>) \in Handlers
    /\ findHandler(routes_, GET, <<"/", "u", "/">>) = NullHandler
    /\ findHandler(routes_, GET, <<"/", "u", "/", "1">>) = NullHandler
    /\ findHandler(routes_, POST, <<"/", "u">>) = NullHandler


(***************************************************************************)
(* Server::run, Server::listenIPv6, Server::stop.                          *)
(***************************************************************************)
\* the listening descriptor each accept loop calls accept on
ListenFd(l) == IF l = "ipv4" THEN "fd4" ELSE "fd6"

\* how far the set-up of a listening socket gets
SetupOutcomes == {"socket_fails", "bind_fails", "listen_fails", "ok"}

\* run() that gives up when the IPv6 socket cannot be set up
RunIPv6Fatal(r4, r6) ==
    /\ lpc["ipv4"] \in {"created", "failed", "exited"}
    /\ r6 = "ok" => "fd6" \notin openFds
    /\ IF r4 = "ok" /\ r6 = "ok"
       THEN /\ serverSocket_' = "fd4"
            /\ openFds' = openFds \cup {"fd4", "fd6"}
            /\ lpc' = [lpc EXCEPT !["ipv4"] = "starting", !["ipv6"] = "loop"]
       ELSE /\ serverSocket_' = IF r4 = "socket_fails" THEN "-1" ELSE "fd4"
            /\ lpc' = [lpc EXCEPT !["ipv4"] = "failed"]
            /\ UNCHANGED openFds
    /\ UNCHANGED <<srv_running_, lsock, conn, sent, hc>>
    /\ UNCHANGED <<poolVars, routeVars, respVars, stopVars, lockVars, logVars,
                   recvVars, parseVars, bodyVars, nestVars, sdtorVars, raceVars, instVars>>

\* run() that starts the IPv6 accept thread before it looks at the result
\* of listen() on the IPv4 socket
RunStartsIPv6First(r4, r6) ==
    /\ lpc["ipv4"] \in {"created", "failed", "exited"}
    /\ r6 = "ok" => "fd6" \notin openFds
    /\ IF r4 = "ok"
       THEN /\ serverSocket_' = "fd4"
            /\ openFds' = openFds \cup {"fd4"}
                             \cup (IF r6 = "ok" THEN {"fd6"} ELSE {})
            /\ lpc' = [lpc EXCEPT !["ipv4"] = "starting",
                                  !["ipv6"] = IF r6 = "ok" THEN "loop" ELSE @]
       ELSE /\ serverSocket_' = IF r4 = "socket_fails" THEN "-1" ELSE "fd4"
            /\ lpc' = [lpc EXCEPT !["ipv4"] = "failed",
                                  !["ipv6"] = IF r4 = "listen_fails" /\ r6 = "ok"
                                              THEN "loop" ELSE @]
            /\ openFds' = openFds \cup (IF r4 = "listen_fails" /\ r6 = "ok"
                                        THEN {"fd6"} ELSE {})
    /\ UNCHANGED <<srv_running_, lsock, conn, sent, hc>>
    /\ UNCHANGED <<poolVars, routeVars, respVars, stopVars, lockVars, logVars,
                   recvVars, parseVars, bodyVars, nestVars, sdtorVars, raceVars, instVars>>

\* run() up to the line before running_ = true, called on a server that is
\* not inside run().  r4 is how far the IPv4 socket gets: when socket(),
\* bind() or listen() fails run() closes what it opened and returns, with
\* serverSocket_ left as socket() set it.  r6 is how far the optional IPv6
\* socket gets (bind() fails while an earlier IPv6 socket still listens on
\* the port): when it listens, its accept loop is started in a detached
\* thread at once.
Run(r4, r6) ==
    /\ lpc["ipv4"] \in {"created", "failed", "exited"}
    /\ r6 = "ok" => "fd6" \notin openFds
    /\ IF r4 = "ok"
       THEN /\ serverSocket_' = "fd4"
            /\ openFds' = openFds \cup {"fd4"}
                             \cup (IF r6 = "ok" THEN {"fd6"} ELSE {})
            /\ lpc' = [lpc EXCEPT !["ipv4"] = "starting",
                                  !["ipv6"] = IF r6 = "ok" THEN "loop" ELSE @]
       ELSE /\ serverSocket_' = IF r4 = "socket_fails" THEN "-1" ELSE "fd4"
            /\ lpc' = [lpc EXCEPT !["ipv4"] = "failed"]
            /\ UNCHANGED openFds
    /\ UNCHANGED <<srv_running_, lsock, conn, sent, hc>>
    /\ UNCHANGED <<poolVars, routeVars, respVars, stopVars, lockVars, logVars,
                   recvVars, parseVars, bodyVars, nestVars, sdtorVars, raceVars, instVars>>

\* running_ = true; then the IPv4 accept loop begins
RunSetRunning ==
    /\ lpc["ipv4"] = "starting"
    /\ srv_running_' = TRUE
    /\ lpc' = [lpc EXCEPT !["ipv4"] = "loop"]
    /\ UNCHANGED <<serverSocket_, openFds, lsock, conn, sent, hc>>
    /\ UNCHANGED <<poolVars, routeVars, respVars, stopVars, lockVars, logVars,
                   recvVars, parseVars, bodyVars, nestVars, sdtorVars, raceVars, instVars>>

\* while (running_): go on to accept, or leave the loop; listenIPv6 closes
\* its listening socket after the loop, run() just returns
LoopTest(l) ==
    /\ lpc[l] = "loop"
    /\ IF srv_running_
       THEN /\ lpc' = [lpc EXCEPT ![l] = "accept"]
            /\ UNCHANGED openFds
       ELSE /\ lpc' = [lpc EXCEPT ![l] = "exited"]
            /\ openFds' = IF l = "ipv6" THEN openFds \ {"fd6"} ELSE openFds
    /\ UNCHANGED <<srv_running_, serverSocket_, lsock, conn, sent, hc>>
    /\ UNCHANGED <<poolVars, routeVars, respVars, stopVars, lockVars, logVars,
                   recvVars, parseVars, bodyVars, nestVars, sdtorVars, raceVars, instVars>>

\* accept() returns a new client socket
AcceptOk(l) ==
    /\ lpc[l] = "accept"
    /\ ListenFd(l) \in openFds
    /\ nextId <= MaxConns
    /\ conn' = [conn EXCEPT ![nextId] = "open"]
    /\ sent' = sent
    /\ lsock' = [lsock EXCEPT ![l] = nextId]
    /\ nextId' = nextId + 1
    /\ lpc' = [lpc EXCEPT ![l] = "submit"]
    /\ UNCHANGED <<srv_running_, serverSocket_, openFds, hc>>
    /\ UNCHANGED <<tasks_, pool_running_, mtx_, cvWaiting, wpc, wtask, cpc,
                   carg, cret, dpc, djoin, alive, accepted, rejected,
                   execCount, caught>>
    /\ UNCHANGED <<routeVars, respVars, stopVars, lockVars, logVars, recvVars,
                   parseVars, bodyVars, nestVars, sdtorVars, raceVars, instVars>>

\* accept() on a listening socket that stop() has closed returns -1:
\* continue
AcceptFail(l) ==
    /\ lpc[l] = "accept"
    /\ ListenFd(l) \notin openFds
    /\ lpc' = [lpc EXCEPT ![l] = "loop"]
    /\ UNCHANGED <<srv_running_, serverSocket_, openFds, lsock, conn, sent, hc>>
    /\ UNCHANGED <<poolVars, routeVars, respVars, stopVars, lockVars, logVars,
                   recvVars, parseVars, bodyVars, nestVars, sdtorVars, raceVars, instVars>>

\* threadpool_.addTask(&Server::handleClient, this, clientSocket, ...):
\* the call enters addTask
ListenerAddTask(l) ==
    /\ lpc[l] = "submit"
    /\ AddTaskLock(l, [id |-> lsock[l], kind |-> "handleClient"])
    /\ lpc' = [lpc EXCEPT ![l] = "addTask"]
    /\ UNCHANGED nextId
    /\ UNCHANGED <<srv_running_, serverSocket_, openFds, lsock, conn, sent, hc>>
    /\ UNCHANGED <<routeVars, respVars, stopVars, lockVars, logVars, recvVars,
                   parseVars, bodyVars, nestVars, sdtorVars, raceVars, instVars>>

\* addTask has returned; its result is discarded and the loop goes round
\* with a new clientSocket
ListenerContinue(l) ==
    /\ lpc[l] = "addTask"
    /\ cpc[l] = "idle"
    /\ lpc' = [lpc EXCEPT ![l] = "loop"]
    /\ lsock' = [lsock EXCEPT ![l] = 0]
    /\ cret' = [cret EXCEPT ![l] = "none"]
    /\ carg' = [carg EXCEPT ![l] = NoTask]
    /\ UNCHANGED <<srv_running_, serverSocket_, openFds, conn, sent, hc>>
    /\ UNCHANGED <<tasks_, pool_running_, mtx_, cvWaiting, wpc, wtask, cpc,
                   dpc, djoin, alive, nextId, accepted, rejected, execCount,
                   caught>>
    /\ UNCHANGED <<routeVars, respVars, stopVars, lockVars, logVars, recvVars,
                   parseVars, bodyVars, nestVars, sdtorVars, raceVars, instVars>>

\* stop() without its test of running_
stopUnguarded(t) ==
    /\ stopCalls < MaxStops
    /\ stopCalls' = stopCalls + 1
    /\ stopCaller' = t
    /\ srv_running_' = FALSE
    /\ stopPrints' = stopPrints + 1
    /\ IF serverSocket_ # "-1"
       THEN /\ openFds' = openFds \ {serverSocket_}
            /\ stopCloses' = stopCloses + 1
       ELSE UNCHANGED <<openFds, stopCloses>>
    /\ serverSocket_' = "-1"
    /\ UNCHANGED <<lpc, lsock, conn, sent, hc>>
    /\ UNCHANGED <<poolVars, routeVars, respVars, lockVars, logVars, recvVars,
                   parseVars, bodyVars, nestVars, sdtorVars, raceVars, instVars>>

\* the threads stop() can run on: the thread inside run(), the listenIPv6
\* thread or a worker when signalHandler interrupts it (SIGINT and SIGTERM
\* are delivered to any thread of the process), or a thread of the
\* application that calls stop() or destroys the server
StopThreads ==
    {CallerThread("ipv4"), AppThread}
        \cup {WorkerThread(w) : w \in Workers}
        \cup (IF lpc["ipv6"] \in {"off", "exited"} THEN {}
              ELSE {CallerThread("ipv6")})

\* Server::stop called on thread t: nothing when running_ is false;
\* otherwise running_ = false, the line is printed and the IPv4 listening
\* socket is closed and forgotten
stop(t) ==
    /\ stopCalls < MaxStops
    /\ stopCalls' = stopCalls + 1
    /\ stopCaller' = t
    /\ IF srv_running_
       THEN /\ srv_running_' = FALSE
            /\ stopPrints' = stopPrints + 1
            /\ IF serverSocket_ # "-1"
               THEN /\ openFds' = openFds \ {serverSocket_}
                    /\ stopCloses' = stopCloses + 1
               ELSE UNCHANGED <<openFds, stopCloses>>
            /\ serverSocket_' = "-1"
       ELSE UNCHANGED <<srv_running_, serverSocket_, openFds, stopCloses,
                        stopPrints>>
    /\ UNCHANGED <<lpc, lsock, conn, sent, hc>>
    /\ UNCHANGED <<poolVars, routeVars, respVars, lockVars, logVars, recvVars,
                   parseVars, bodyVars, nestVars, sdtorVars, raceVars, instVars>>


(***************************************************************************)
(* Server::handleClient, run by a pool worker.                             *)
(***************************************************************************)
\* what the clients send, in the order they connect: a GET of /u, a
\* preflight for /u, a POST of /u with a query string
RawRequests ==
    << <<"G", "E", "T", " ", "/", "u", " ", "H", "\r", "\n", "\r", "\n">>,
       <<"O", "P", "T", "I", "O", "N", "S", " ", "/", "u", " ", "H",
         "\r", "\n", "\r", "\n">>,
       <<"P", "O", "S", "T", " ", "/", "u", "?", "a", "=", "b", " ", "H",
         "\r", "\n", "\r", "\n">> >>

\* parseRequest of each of them
ParsedRequests == [i \in 1..Len(RawRequests) |-> parseRequest(RawRequests[i])]

\* the request handleClient parses from what connection c sent
RequestOf(c) == ParsedRequests[((c - 1) % Len(RawRequests)) + 1]

InHandleClient(w) == wpc[w] = "run" /\ wtask[w].kind = "handleClient"

\* the task is over: the worker's loop goes round
TaskReturns(w) ==
    /\ execCount' = [execCount EXCEPT ![wtask[w].id] = @ + 1]
    /\ wpc' = [wpc EXCEPT ![w] = "lock"]
    /\ wtask' = [wtask EXCEPT ![w] = NoTask]

\* recv() <= 0 answered with a 400 before the socket is closed
HandleClientRecvNothingAnswers(w) ==
    /\ alive
    /\ InHandleClient(w)
    /\ hc[w].pc = "none"
    /\ conn' = [conn EXCEPT ![wtask[w].id] = "closed"]
    /\ sent' = [sent EXCEPT ![wtask[w].id] =
                  buildResponse(error(NewResponse, 400, "Bad Request"))]
    /\ recvd' = [recvd EXCEPT ![wtask[w].id] = "nothing"]
    /\ TaskReturns(w)
    /\ caught' = caught
    /\ UNCHANGED <<srv_running_, serverSocket_, openFds, lpc, lsock, hc>>
    /\ UNCHANGED <<tasks_, pool_running_, mtx_, cvWaiting, cpc, carg, cret,
                   dpc, djoin, alive, nextId, accepted, rejected>>
    /\ UNCHANGED <<routeVars, respVars, stopVars, lockVars, logVars, parseVars,
                   bodyVars, nestVars, sdtorVars, raceVars, instVars>>

\* recv() <= 0: close(clientSocket); return;
HandleClientRecvNothing(w) ==
    /\ alive
    /\ InHandleClient(w)
    /\ hc[w].pc = "none"
    /\ conn' = [conn EXCEPT ![wtask[w].id] = "closed"]
    /\ sent' = sent
    /\ recvd' = [recvd EXCEPT ![wtask[w].id] = "nothing"]
    /\ TaskReturns(w)
    /\ caught' = caught
    /\ UNCHANGED <<srv_running_, serverSocket_, openFds, lpc, lsock, hc>>
    /\ UNCHANGED <<tasks_, pool_running_, mtx_, cvWaiting, cpc, carg, cret,
                   dpc, djoin, alive, nextId, accepted, rejected>>
    /\ UNCHANGED <<routeVars, respVars, stopVars, lockVars, logVars, parseVars,
                   bodyVars, nestVars, sdtorVars, raceVars, instVars>>

\* recv() > 0, parseRequest, then the OPTIONS / handler / 404 branches.  A
\* handler's exception that the catch clause does not match leaves
\* handleClient with no response sent and the socket open; the worker's
\* catch (...) around task() takes it.
HandleClientDispatch(w) ==
    /\ alive
    /\ InHandleClient(w)
    /\ hc[w].pc = "none"
    /\ recvd' = [recvd EXCEPT ![wtask[w].id] = "data"]
    /\ LET request == RequestOf(wtask[w].id)
       IN \E outcome \in HandlerOutcomes :
             LET d == Dispatch(routes_, request, outcome)
             IN IF d.escaped
                THEN /\ TaskReturns(w)
                     /\ caught' = [caught EXCEPT ![w] = @ \/ WorkerCatches("throws_other")]
                     /\ hc' = hc
                ELSE /\ hc' = [hc EXCEPT ![w] =
                                [pc |-> "send", req |-> request, resp |-> d.resp,
                                 lookups |-> d.lookups, invoked |-> d.invoked,
                                 threw |-> d.threw]]
                     /\ UNCHANGED <<wpc, wtask, execCount, caught>>
    /\ UNCHANGED <<srv_running_, serverSocket_, openFds, lpc, lsock, conn, sent>>
    /\ UNCHANGED <<tasks_, pool_running_, mtx_, cvWaiting, cpc, carg, cret,
                   dpc, djoin, alive, nextId, accepted, rejected>>
    /\ UNCHANGED <<routeVars, respVars, stopVars, lockVars, logVars, parseVars,
                   bodyVars, nestVars, sdtorVars, raceVars, instVars>>

\* buildResponse(response) is sent, the access log line is printed, then
\* close(clientSocket) and return
HandleClientRespond(w) ==
    /\ alive
    /\ InHandleClient(w)
    /\ hc[w].pc = "send"
    /\ sent' = [sent EXCEPT ![wtask[w].id] = buildResponse(hc[w].resp)]
    /\ conn' = [conn EXCEPT ![wtask[w].id] = "closed"]
    /\ hc' = [hc EXCEPT ![w] = NoHandleClient]
    /\ TaskReturns(w)
    /\ caught' = caught
    /\ UNCHANGED <<srv_running_, serverSocket_, openFds, lpc, lsock>>
    /\ UNCHANGED <<tasks_, pool_running_, mtx_, cvWaiting, cpc, carg, cret,
                   dpc, djoin, alive, nextId, accepted, rejected>>
    /\ UNCHANGED <<routeVars, respVars, stopVars, lockVars, logVars, recvVars,
                   parseVars, bodyVars, nestVars, sdtorVars, raceVars, instVars>>

(***************************************************************************)
(* The server: routes registered before run(), two accept loops feeding    *)
(* the pool, the pool's workers running handleClient, stop() at any time.  *)
(***************************************************************************)
ServerNext ==
    \/ /\ routes_ = <<>>
       /\ lpc["ipv4"] = "created"
       /\ get(<<"/", "u">>, "h1")
    \/ \E r4, r6 \in SetupOutcomes : lpc["ipv4"] = "created" /\ Run(r4, r6)
    \/ RunSetRunning
    \/ \E l \in Callers : LoopTest(l)
    \/ \E l \in Callers : AcceptOk(l)
    \/ \E l \in Callers : AcceptFail(l)
    \/ \E l \in Callers : ListenerAddTask(l)
    \/ \E l \in Callers : AddTaskCheck(l)
    \/ \E l \in Callers : AddTaskNotify(l)
    \/ \E l \in Callers : ListenerContinue(l)
    \/ srv_running_ /\ stop(AppThread)
    \/ \E w \in Workers : WorkerLock(w)
    \/ \E w \in Workers : WorkerBlock(w)
    \/ \E w \in Workers : WorkerDequeue(w)
    \/ \E w \in Workers : HandleClientRecvNothing(w)
    \/ \E w \in Workers : HandleClientDispatch(w)
    \/ \E w \in Workers : HandleClientRespond(w)

SpecServer == Init /\ [][ServerNext]_vars


(***************************************************************************)
(* The server's properties.                                                *)
(***************************************************************************)
\* the connection's handleClient task has been called and is over
TaskOver(c) == execCount[c] > 0

\* C6: a client socket whose task addTask rejected is closed by the accept
\* loop that accepted it: once the loop has gone on to its next iteration
\* the socket is not left open.
C6_RejectedSocketClosed ==
    \A c \in rejected \cap ConnIds :
        conn[c] = "closed" \/ \E l \in Callers : lsock[l] = c

\* C7: whatever a handler throws is caught in handleClient: the response is
\* a 500 carrying the message, no exception reaches the worker's catch
\* clauses, every connection whose task is over has its socket closed, and
\* the process lives.
C7_HandlerErrorAnswered ==
    /\ \A w \in Workers :
          (hc[w].pc = "send" /\ hc[w].threw # "none")
              => /\ hc[w].resp.statusCode = 500
                 /\ hc[w].resp.body = "{\"status\":\"fail\", \"message\":\"error: boom\"}"
    /\ \A w \in Workers : ~caught[w]
    /\ \A c \in ConnIds : TaskOver(c) => conn[c] = "closed"
    /\ alive

IsOptions(c) == RequestOf(c).method = OPTIONS

\* C9: a request whose method is OPTIONS gets status 200, an empty body and
\* the four CORS header lines, whether or not its path is registered;
\* findHandler is not called, no handler is invoked, and the task ends
\* with the socket closed.
C9_OptionsShortCircuit ==
    /\ \A w \in Workers :
          (hc[w].pc = "send" /\ hc[w].req.method = OPTIONS)
              => /\ hc[w].resp.statusCode = 200
                 /\ hc[w].resp.body = ""
                 /\ hc[w].lookups = 0
                 /\ hc[w].invoked = NullHandler
                 /\ hc[w].threw = "none"
    /\ \A c \in ConnIds :
          IsOptions(c)
              => /\ TaskOver(c) => conn[c] = "closed"
                 /\ sent[c] # NoWire
                       => /\ sent[c].lines[1] = "HTTP/1.1 200 OK"
                          /\ SubSeq(sent[c].lines, 2, 5) =
                                <<"Access-Control-Allow-Origin: *",
                                  "Access-Control-Allow-Methods: GET, POST, PUT, DELETE, OPTIONS",
                                  "Access-Control-Allow-Headers: Content-Type, Authorization, X-Requested-With",
                                  "Access-Control-Max-Age: 86400">>
                          /\ sent[c].lines[Len(sent[c].lines)] = "Content-Length: 0"
                          /\ sent[c].body = ""

\* a preflight for the registered path /u has been answered
C9_Witness ==
    \E c \in ConnIds :
        /\ IsOptions(c)
        /\ sent[c] # NoWire
        /\ conn[c] = "closed"
        /\ findHandler(routes_, GET, RequestOf(c).path) # NullHandler

\* no handler was registered for the method and path of the request
IsMiss(request) ==
    request.method # OPTIONS /\ <<request.method, request.path>> \notin DOMAIN lastReg

\* C10: a request that is not OPTIONS and whose method and path have no
\* registered handler gets status 404 and the fail body with the message
\* "Resource not found"; no handler is invoked, nothing is thrown, and the
\* task ends with the socket closed.
C10_RoutingMiss ==
    /\ \A w \in Workers :
          (hc[w].pc = "send" /\ IsMiss(hc[w].req))
              => /\ hc[w].resp.statusCode = 404
                 /\ hc[w].resp.body = "{\"status\":\"fail\", \"message\":\"Resource not found\"}"
                 /\ hc[w].invoked = NullHandler
                 /\ hc[w].threw = "none"
    /\ \A c \in ConnIds :
          IsMiss(RequestOf(c))
              => /\ TaskOver(c) => conn[c] = "closed"
                 /\ sent[c] # NoWire
                       => /\ sent[c].lines[1] = "HTTP/1.1 404 Not Found"
                          /\ sent[c].body = "{\"status\":\"fail\", \"message\":\"Resource not found\"}"

\* a request that found no handler has been answered
C10_Witness ==
    \E c \in ConnIds :
        /\ IsMiss(RequestOf(c))
        /\ sent[c] # NoWire
        /\ conn[c] = "closed"


(***************************************************************************)
(* A handler working on its Response, then buildResponse.                  *)
(***************************************************************************)
\* the bodies, codes and messages handlers pass
Bodies == {"", "{\"a\":1}", "hello world"}
Codes == {201, 404}
Messages == {"bad id"}

\* one more Response method may be called: the handler has not returned
InHandler == wire = NoWire /\ ncalls < MaxCalls

Called(r, m) ==
    /\ res' = r
    /\ result' = m
    /\ ncalls' = ncalls + 1
    /\ UNCHANGED wire
    /\ UNCHANGED <<poolVars, routeVars, srvVars, stopVars, lockVars, logVars,
                   recvVars, parseVars, bodyVars, nestVars, sdtorVars, raceVars, instVars>>

CallJson(b) == InHandler /\ Called(json(res, b), NoResult)
CallText(b) == InHandler /\ Called(text(res, b), NoResult)
CallStatus(code) == InHandler /\ Called(status(res, code), NoResult)
CallSuccess == InHandler /\ Called(success(res), successResult)
CallSuccessString(resMap) ==
    InHandler /\ Called(successString(res, resMap), successStringResult(resMap))
CallSuccessJson(resMap) ==
    InHandler /\ Called(successJson(res, resMap), successJsonResult(resMap))
CallError(code, message) == InHandler /\ Called(error(res, code, message), NoResult)
CallFile(outcome) == InHandler /\ Called(file(res, outcome), NoResult)

\* the handler has returned: std::string responseStr = buildResponse(response)
BuildResponse ==
    /\ wire = NoWire
    /\ wire' = buildResponse(res)
    /\ UNCHANGED <<res, ncalls, result>>
    /\ UNCHANGED <<poolVars, routeVars, srvVars, stopVars, lockVars, logVars,
                   recvVars, parseVars, bodyVars, nestVars, sdtorVars, raceVars, instVars>>

ResponseNext ==
    \/ \E b \in Bodies : CallJson(b)
    \/ \E b \in Bodies : CallText(b)
    \/ \E code \in Codes : CallStatus(code)
    \/ CallSuccess
    \/ \E resMap \in DataMaps : CallSuccessString(resMap)
    \/ \E resMap \in DataMaps : CallSuccessJson(resMap)
    \/ \E code \in Codes, message \in Messages : CallError(code, message)
    \/ \E outcome \in FileOutcomes : CallFile(outcome)
    \/ BuildResponse

SpecResponse == Init /\ [][ResponseNext]_vars


(***************************************************************************)
(* The serializer's properties.                                            *)
(***************************************************************************)
\* line is a Content-Length header line (the lengths here have two digits
\* at most)
IsContentLength(line) ==
    \E n \in 0..99 : line = "Content-Length: " \o ToString(n)

FourCorsLines ==
    <<"Access-Control-Allow-Origin: *",
      "Access-Control-Allow-Methods: GET, POST, PUT, DELETE, OPTIONS",
      "Access-Control-Allow-Headers: Content-Type, Authorization, X-Requested-With",
      "Access-Control-Max-Age: 86400">>

\* C12: every response written to a client socket, whichever branch of
\* handleClient produced it, carries the four CORS header lines right after
\* its status line.
C12_CorsOnEveryResponse ==
    \A c \in ConnIds :
        sent[c] # NoWire
            => /\ Len(sent[c].lines) >= 5
               /\ SubSeq(sent[c].lines, 2, 5) = FourCorsLines

\* a 500 for a handler that threw and the answer to a preflight have both
\* been sent
C12_Witness ==
    \E c, d \in ConnIds :
        /\ sent[c] # NoWire
        /\ sent[c].lines[1] = "HTTP/1.1 500 Internal Server Error"
        /\ sent[d] # NoWire
        /\ IsOptions(d)


(***************************************************************************)
(* The life cycle of the server: run() and stop() called any number of     *)
(* times, in any order, while the accept loops go on and queue the          *)
(* connections they accept.                                                *)
(***************************************************************************)
LifecycleNext ==
    \/ /\ routes_ = <<>>
       /\ lpc["ipv4"] = "created"
       /\ get(<<"/", "u">>, "h1")
    \/ \E r4, r6 \in SetupOutcomes : Run(r4, r6)
    \/ RunSetRunning
    \/ \E l \in Callers : LoopTest(l)
    \/ \E l \in Callers : AcceptOk(l)
    \/ \E l \in Callers : AcceptFail(l)
    \/ \E l \in Callers : ListenerAddTask(l)
    \/ \E l \in Callers : AddTaskCheck(l)
    \/ \E l \in Callers : AddTaskNotify(l)
    \/ \E l \in Callers : ListenerContinue(l)
    \/ \E t \in StopThreads : stop(t)

SpecLifecycle == Init /\ [][LifecycleNext]_vars

\* C13: Stopped is terminal: once a call of stop() has taken the server
\* from Running to Stopped, no call of run() or stop() makes running_ true
\* again
C13_StoppedIsTerminal ==
    [][(stopPrints > 0 /\ ~srv_running_) => ~srv_running_']_vars

\* C14: stop() is idempotent: a call of stop() on a server that is not
\* running (stopped already, or never run) leaves running_ false, closes no
\* socket and prints nothing
C14_StopIdempotent ==
    [][(stopCalls' = stopCalls + 1 /\ ~srv_running_)
          => /\ ~srv_running_'
             /\ serverSocket_' = serverSocket_
             /\ openFds' = openFds
             /\ stopCloses' = stopCloses
             /\ stopPrints' = stopPrints]_vars

\* a second stop() has returned after the first one stopped the server
C14_Witness ==
    /\ stopCalls = 2
    /\ stopPrints = 1
    /\ stopCloses = 1
    /\ ~srv_running_
    /\ serverSocket_ = "-1"

(***************************************************************************)
(* One run of the server, as main() makes it: run() is called once, on a   *)
(* server that was just constructed.                                        *)
(***************************************************************************)
RunOnceNext ==
    \/ /\ routes_ = <<>>
       /\ lpc["ipv4"] = "created"
       /\ get(<<"/", "u">>, "h1")
    \/ \E r4, r6 \in SetupOutcomes : lpc["ipv4"] = "created" /\ Run(r4, r6)
    \/ RunSetRunning
    \/ \E l \in Callers : LoopTest(l)
    \/ \E l \in Callers : AcceptOk(l)
    \/ \E l \in Callers : AcceptFail(l)
    \/ \E l \in Callers : ListenerAddTask(l)
    \/ \E l \in Callers : AddTaskCheck(l)
    \/ \E l \in Callers : AddTaskNotify(l)
    \/ \E l \in Callers : ListenerContinue(l)
    \/ \E t \in StopThreads : stop(t)

SpecRunOnce == Init /\ [][RunOnceNext]_vars

\* the thread inside run() and the detached listenIPv6 thread are scheduled:
\* a step one of them can take by itself is taken.  accept() returning a
\* connection needs a client, and stop() needs a caller: neither is owed.
ListenerFairness ==
    /\ WF_vars(RunSetRunning)
    /\ \A l \in Callers :
          /\ WF_vars(LoopTest(l))
          /\ WF_vars(AcceptFail(l))
          /\ WF_vars(ListenerAddTask(l))
          /\ WF_vars(AddTaskCheck(l))
          /\ WF_vars(AddTaskNotify(l))
          /\ WF_vars(ListenerContinue(l))

FairSpecRunOnce == SpecRunOnce /\ ListenerFairness

\* C15: after stop() on a running server every listening socket is
\* eventually closed, the IPv4 one and the IPv6 one
C15_ListenersEventuallyClosed ==
    (stopPrints > 0) ~> (openFds = {})

\* C16: when socket(), bind() or listen() fails for the IPv4 socket, run()
\* returns without serving: running_ is never true, no accept loop is
\* entered for either family, no IPv6 accept thread is left running, no
\* listening socket is left open and no connection task is submitted
C16_IPv4FailureServesNothing ==
    lpc["ipv4"] = "failed"
       => /\ ~srv_running_
          /\ lpc["ipv6"] = "off"
          /\ openFds = {}
          /\ nextId = 1
          /\ tasks_ = <<>>
          /\ accepted = {}
          /\ rejected = {}
          /\ \A l \in Callers : cpc[l] = "idle" /\ lsock[l] = 0

\* run() has returned after bind() or listen() failed on the IPv4 socket,
\* and stop() has been called since
C16_Witness ==
    /\ lpc["ipv4"] = "failed"
    /\ serverSocket_ = "fd4"
    /\ stopCalls > 0

\* C17: a failure of the IPv6 socket is never fatal: whenever the IPv4
\* socket is set up, run() goes on to set running_ whatever happened to the
\* IPv6 socket, and after an IPv6 failure no IPv6 accept thread is started
\* and no IPv6 socket is left open
C17_IPv6FailureNotFatal ==
    /\ [][\A r6 \in SetupOutcomes \ {"ok"} :
             Run("ok", r6) => /\ lpc'["ipv4"] = "starting"
                              /\ lpc'["ipv6"] = "off"
                              /\ openFds' = {"fd4"}]_vars
    /\ [][lpc["ipv6"] = "off" => lpc'["ipv6"] = "off" \/ lpc["ipv4"] = "created"]_vars
    /\ (lpc["ipv4"] = "starting") ~> srv_running_

\* the server runs without an IPv6 accept thread and has accepted a
\* connection on the IPv4 socket
C17_Witness ==
    /\ srv_running_
    /\ lpc["ipv6"] = "off"
    /\ "fd6" \notin openFds
    /\ lsock["ipv4"] # 0
    /\ conn[lsock["ipv4"]] = "open"

\* C18: once the IPv6 socket is set up, its accept loop does not exit, and
\* does not close the IPv6 socket, before stop() is called
C18_IPv6LoopRunsUntilStop ==
    lpc["ipv6"] = "exited" => stopCalls > 0

(***************************************************************************)
(* The route table and routesMutex_, statement by statement: a thread of   *)
(* the application registers routes while workers look handlers up.         *)
(***************************************************************************)
\* get/post/put/del, first line: std::lock_guard lock(routesMutex_)
RegisterLock(method, path, handler) ==
    /\ rpc = "idle"
    /\ routesMutex_ = NoThread
    /\ routesMutex_' = AppThread
    /\ rpc' = "locked"
    /\ rarg' = [method |-> method, path |-> path, handler |-> handler]
    /\ UNCHANGED fpc
    /\ UNCHANGED <<poolVars, routeVars, srvVars, respVars, stopVars, logVars,
                   recvVars, parseVars, bodyVars, nestVars, sdtorVars, raceVars, instVars>>

\* second line: routes_[method][path] = std::move(handler)
RegisterStore ==
    /\ rpc = "locked"
    /\ routes_' = Register(routes_, rarg.method, rarg.path, rarg.handler)
    /\ lastReg' = (<<rarg.method, rarg.path>> :> rarg.handler) @@ lastReg
    /\ regCount' = regCount + 1
    /\ rpc' = "stored"
    /\ UNCHANGED <<routesMutex_, rarg, fpc>>
    /\ UNCHANGED <<poolVars, srvVars, respVars, stopVars, logVars, recvVars,
                   parseVars, bodyVars, nestVars, sdtorVars, raceVars, instVars>>

\* the function returns and the lock_guard releases routesMutex_
RegisterUnlock ==
    /\ rpc = "stored"
    /\ routesMutex_' = NoThread
    /\ rpc' = "idle"
    /\ rarg' = NoRoute
    /\ UNCHANGED fpc
    /\ UNCHANGED <<poolVars, routeVars, srvVars, respVars, stopVars, logVars,
                   recvVars, parseVars, bodyVars, nestVars, sdtorVars, raceVars, instVars>>

\* handleClient, on worker w, calls findHandler(method, path): findHandler
\* starts reading routes_, and locks nothing
FindHandlerCall(w, method, path) ==
    /\ fpc[w].pc = "idle"
    /\ fpc' = [fpc EXCEPT ![w] = [pc |-> "find", method |-> method,
                                  path |-> path, found |-> NullHandler]]
    /\ UNCHANGED <<routesMutex_, rpc, rarg>>
    /\ UNCHANGED <<poolVars, routeVars, srvVars, respVars, stopVars, logVars,
                   recvVars, parseVars, bodyVars, nestVars, sdtorVars, raceVars, instVars>>

\* findHandler returns what it read; handleClient calls the handler if there
\* is one
FindHandlerReturn(w) ==
    /\ fpc[w].pc = "find"
    /\ LET h == findHandler(routes_, fpc[w].method, fpc[w].path)
       IN fpc' = [fpc EXCEPT ![w] = IF h # NullHandler
                                      THEN [NoFind EXCEPT !.pc = "invoke",
                                                          !.found = h]
                                      ELSE NoFind]
    /\ UNCHANGED <<routesMutex_, rpc, rarg>>
    /\ UNCHANGED <<poolVars, routeVars, srvVars, respVars, stopVars, logVars,
                   recvVars, parseVars, bodyVars, nestVars, sdtorVars, raceVars, instVars>>

\* the handler returns
HandlerReturns(w) ==
    /\ fpc[w].pc = "invoke"
    /\ fpc' = [fpc EXCEPT ![w] = NoFind]
    /\ UNCHANGED <<routesMutex_, rpc, rarg>>
    /\ UNCHANGED <<poolVars, routeVars, srvVars, respVars, stopVars, logVars,
                   recvVars, parseVars, bodyVars, nestVars, sdtorVars, raceVars, instVars>>

RouteLockNext ==
    \/ \E p \in RegPaths, h \in {"h1", "h2"} :
          regCount < MaxRoutes /\ RegisterLock(GET, p, h)
    \/ RegisterStore
    \/ RegisterUnlock
    \/ \E w \in Workers, p \in RegPaths : FindHandlerCall(w, GET, p)
    \/ \E w \in Workers : FindHandlerReturn(w)
    \/ \E w \in Workers : HandlerReturns(w)

SpecRouteLock == Init /\ [][RouteLockNext]_vars

\* C19: the route table is accessed only under routesMutex_: a thread that
\* is registering a route, and a thread that is looking a handler up, holds
\* the mutex; and the mutex is not held by a worker while it calls a handler
C19_RoutesUnderMutex ==
    /\ rpc \in {"locked", "stored"} => routesMutex_ = AppThread
    /\ \A w \in Workers :
          /\ fpc[w].pc = "find" => routesMutex_ = WorkerThread(w)
          /\ fpc[w].pc = "invoke" => routesMutex_ # WorkerThread(w)

\* C20: a listening socket is touched (accepted on, closed, reassigned) only
\* by the thread that runs its accept loop: the call of stop() that closes
\* serverSocket_ and sets it to -1 runs on the thread that is inside run();
\* and a client socket, once handed over, is used by one worker only
C20_ListeningSocketOwnedByLoopThread ==
    /\ [][stopCloses' # stopCloses => stopCaller' = CallerThread("ipv4")]_vars
    /\ [](\A w1, w2 \in Workers :
             (/\ w1 # w2
              /\ wpc[w1] = "run"
              /\ wpc[w2] = "run") => wtask[w1].id # wtask[w2].id)

(***************************************************************************)
(* The logging of handleClient, statement by statement: each worker that   *)
(* handles a request writes the request to the Log sink, sends the          *)
(* response, and prints the access-log line under logMutex_.                *)
(***************************************************************************)
\* Log::getInstance()->write(...), first statement: fp = fopen(path, "a+").
\* handleClient calls it with the request it received, and the handler
\* calls it again through the Response method that sets the answer
LogWriteOpen(w) ==
    /\ lgpc[w] \in {"idle", "handler"}
    /\ lgpc[w] = "idle" => logCount < MaxConns
    /\ logCount' = IF lgpc[w] = "idle" THEN logCount + 1 ELSE logCount
    /\ fp' = w
    /\ fpOpen' = fpOpen \cup {w}
    /\ lgpc' = [lgpc EXCEPT ![w] = IF @ = "idle" THEN "opened" ELSE "hopened"]
    /\ UNCHANGED logMutex_
    /\ UNCHANGED <<poolVars, routeVars, srvVars, respVars, stopVars, lockVars,
                   recvVars, parseVars, bodyVars, nestVars, sdtorVars, raceVars, instVars>>

\* fprintf(fp, "%s\n", msg): the line goes to whatever fp points to now
LogWritePrint(w) ==
    /\ lgpc[w] \in {"opened", "hopened"}
    /\ lgpc' = [lgpc EXCEPT ![w] = IF @ = "opened" THEN "printed" ELSE "hprinted"]
    /\ UNCHANGED <<logMutex_, fp, fpOpen, logCount>>
    /\ UNCHANGED <<poolVars, routeVars, srvVars, respVars, stopVars, lockVars,
                   recvVars, parseVars, bodyVars, nestVars, sdtorVars, raceVars, instVars>>

\* fclose(fp); after the first write the request is parsed and the handler
\* called, after the handler's write the response is built and sent
LogWriteClose(w) ==
    /\ lgpc[w] \in {"printed", "hprinted"}
    /\ fpOpen' = fpOpen \ {fp}
    /\ lgpc' = [lgpc EXCEPT ![w] = IF @ = "printed" THEN "handler" ELSE "sent"]
    /\ UNCHANGED <<logMutex_, fp, logCount>>
    /\ UNCHANGED <<poolVars, routeVars, srvVars, respVars, stopVars, lockVars,
                   recvVars, parseVars, bodyVars, nestVars, sdtorVars, raceVars, instVars>>

\* std::lock_guard lock(logMutex_), before the access-log line is printed
AccessLogLock(w) ==
    /\ lgpc[w] = "sent"
    /\ logMutex_ = NoThread
    /\ logMutex_' = WorkerThread(w)
    /\ lgpc' = [lgpc EXCEPT ![w] = "access"]
    /\ UNCHANGED <<fp, fpOpen, logCount>>
    /\ UNCHANGED <<poolVars, routeVars, srvVars, respVars, stopVars, lockVars,
                   recvVars, parseVars, bodyVars, nestVars, sdtorVars, raceVars, instVars>>

\* the line is printed, the socket closed, and handleClient returns: the
\* lock_guard releases logMutex_
AccessLogUnlock(w) ==
    /\ lgpc[w] = "access"
    /\ logMutex_' = NoThread
    /\ lgpc' = [lgpc EXCEPT ![w] = "idle"]
    /\ UNCHANGED <<fp, fpOpen, logCount>>
    /\ UNCHANGED <<poolVars, routeVars, srvVars, respVars, stopVars, lockVars,
                   recvVars, parseVars, bodyVars, nestVars, sdtorVars, raceVars, instVars>>

LogNext ==
    \/ \E w \in Workers : LogWriteOpen(w)
    \/ \E w \in Workers : LogWritePrint(w)
    \/ \E w \in Workers : LogWriteClose(w)
    \/ \E w \in Workers : AccessLogLock(w)
    \/ \E w \in Workers : AccessLogUnlock(w)

SpecLog == Init /\ [][LogNext]_vars

\* worker w is inside a per-request log write
InLogWrite(w) ==
    lgpc[w] \in {"opened", "printed", "hopened", "hprinted", "access"}

\* C21: per-request logging is serialized: with several workers handling
\* connections, at most one worker at a time is inside a per-request log
\* write (a Log sink write or the access-log line)
C21_LogWritesSerialized ==
    \A w1, w2 \in Workers :
        w1 # w2 => ~(InLogWrite(w1) /\ InLogWrite(w2))

\* C22: when recv() on an accepted connection returns zero or less, the
\* connection is closed and nothing else happens: no request is parsed, no
\* handler is looked up or invoked, nothing is thrown, and no response
\* bytes are ever sent on it
C22_EmptyRecvOnlyCloses ==
    [][\A c \in ConnIds :
          /\ recvd'[c] = "nothing" => /\ conn'[c] = "closed"
                                      /\ sent'[c] = NoWire
                                      /\ execCount'[c] = 1
          /\ (recvd[c] # "nothing" /\ recvd'[c] = "nothing")
                => /\ hc' = hc
                   /\ caught' = caught
                   /\ UNCHANGED <<routeVars, lockVars>>]_vars

\* recv() returned nothing on one connection, while another connection was
\* answered
C22_Witness ==
    \E c, d \in ConnIds :
        /\ recvd[c] = "nothing"
        /\ conn[c] = "closed"
        /\ recvd[d] = "data"
        /\ sent[d] # NoWire

(***************************************************************************)
(* parseRequest alone: a buffer arrives from a client and is parsed.       *)
(***************************************************************************)
\* keys and values as clients write them: plain, with '+', with %XX, with a
\* '%' that two hex digits do not follow, with a '?'
KeyTokens == {<<"k">>, <<"a", "+", "b">>, <<"%", "4", "1">>}
ValueTokens ==
    {<<"v">>, <<>>, <<"+">>, <<"%", "4", "1">>, <<"%", "4">>,
     <<"%", "z", "z">>, <<"?", "x">>}

\* key=value, and a piece with no '='
QueryPairs ==
    {k \o <<"=">> \o v : k \in KeyTokens, v \in ValueTokens} \cup {<<"n">>}

\* the query strings of at most n pieces joined by '&'
RECURSIVE QueriesUpTo(_)
QueriesUpTo(n) ==
    IF n = 0 THEN {<<>>}
    ELSE QueriesUpTo(n - 1)
            \cup {(IF q = <<>> THEN <<>> ELSE q \o <<"&">>) \o pr :
                     q \in QueriesUpTo(n - 1), pr \in QueryPairs}

Queries == QueriesUpTo(MaxPairs)

\* request targets: a path, or a path, a '?' and a query string
Targets ==
    {<<"/", "u">>, <<"/">>}
        \cup {<<"/", "u", "?">> \o q : q \in Queries}
        \cup {<<"?">> \o q : q \in QueryPairs}

\* what follows the blank line that ends the headers
RequestBodies ==
    {<<>>, <<"a">>, <<"a", "\n">>, <<"a", "\n", "b">>,
     <<"a", "\n", "\n", "b">>, <<"a", "\r", "\n", "\r", "\n", "b">>,
     <<"\n", "a">>, <<"a", "\r", "\n", "b", "\r", "\n">>}

\* a request as a client sends it: request line, one header, blank line,
\* body
RawRequest(target, body) ==
    <<"P", "O", "S", "T", " ">> \o target
        \o <<" ", "H", "\r", "\n", "A", ":", "b", "\r", "\n", "\r", "\n">>
        \o body

\* the buffers recv() can fill: well-formed requests, and fragments
Buffers ==
    {RawRequest(t, <<"x">>) : t \in Targets}
        \cup {RawRequest(<<"/", "u">>, b) : b \in RequestBodies}
        \cup {<<>>, <<"\n">>, <<"G", "E", "T">>, <<"G", "E", "T", " ", "?">>}

\* recv() fills the buffer
Recv(buffer) ==
    /\ pstage = "idle"
    /\ pstage' = "received"
    /\ pbuf' = buffer
    /\ UNCHANGED preq
    /\ UNCHANGED <<poolVars, routeVars, srvVars, respVars, stopVars, lockVars,
                   logVars, recvVars, bodyVars, nestVars, sdtorVars, raceVars, instVars>>

\* Request request = parseRequest(requestStr)
ParseRequest ==
    /\ pstage = "received"
    /\ pstage' = "parsed"
    /\ preq' = parseRequest(pbuf)
    /\ UNCHANGED pbuf
    /\ UNCHANGED <<poolVars, routeVars, srvVars, respVars, stopVars, lockVars,
                   logVars, recvVars, bodyVars, nestVars, sdtorVars, raceVars, instVars>>

ParseNext ==
    \/ \E buffer \in Buffers : Recv(buffer)
    \/ ParseRequest

SpecParse == Init /\ [][ParseNext]_vars

\* C23: the path of the Request parseRequest returns contains no '?'
C23_PathHasNoQuestionMark ==
    pstage = "parsed" => \A i \in 1..Len(preq.path) : preq.path[i] # "?"

\* a target with two '?' has been parsed: the path is what came before the
\* first, the rest went to the query
C23_Witness ==
    /\ pstage = "parsed"
    /\ preq.path = <<"/", "u">>
    /\ \E i \in 1..Len(preq.query) : preq.query[i] = "?"

\* the plaintext each key and value token stands for: '+' is a space, %41
\* is the byte 0x41, everything else is itself
Plaintext ==
    (<<"k">> :> <<"k">>)
    @@ (<<"a", "+", "b">> :> <<"a", " ", "b">>)
    @@ (<<"%", "4", "1">> :> <<"A">>)
    @@ (<<"v">> :> <<"v">>)
    @@ (<<>> :> <<>>)
    @@ (<<"+">> :> <<" ">>)
    @@ (<<"%", "4">> :> <<"%", "4">>)
    @@ (<<"%", "z", "z">> :> <<"%", "z", "z">>)
    @@ (<<"?", "x">> :> <<"?", "x">>)

\* the request whose query string is q
WithQuery(q) == RawRequest(<<"/", "u", "?">> \o q, <<"x">>)

\* C24: for a query string k1=v1&k2=v2, parseQueryParams yields the mapping
\* of decoded key to decoded value: the entries are the plaintext of the
\* keys and values the client encoded
C24_QueryParamsDecoded ==
    pstage = "parsed" =>
        \A k1, k2 \in KeyTokens, v1, v2 \in ValueTokens :
            /\ pbuf = WithQuery(k1 \o <<"=">> \o v1)
                  => preq.queryParams = (Plaintext[k1] :> Plaintext[v1])
            /\ (k1 # k2 /\ pbuf = WithQuery(k1 \o <<"=">> \o v1 \o <<"&">>
                                               \o k2 \o <<"=">> \o v2))
                  => preq.queryParams = (Plaintext[k1] :> Plaintext[v1])
                                           @@ (Plaintext[k2] :> Plaintext[v2])

\* C25: the body of the parsed Request is the raw bytes that follow the
\* first blank line of the buffer, blank lines and line endings inside the
\* body included
C25_BodyIsRawBytes ==
    pstage = "parsed" =>
        \A b \in RequestBodies :
            pbuf = RawRequest(<<"/", "u">>, b) => preq.body = b

(***************************************************************************)
(* Request::parseBody alone (include/Server.h): a Request with a           *)
(* Content-Type header and a body, and the call of parseBody on it.         *)
(***************************************************************************)
\* ::tolower
Lower ==
    ("A" :> "a") @@ ("B" :> "b") @@ ("C" :> "c") @@ ("D" :> "d")
    @@ ("E" :> "e") @@ ("F" :> "f") @@ ("G" :> "g") @@ ("H" :> "h")
    @@ ("I" :> "i") @@ ("J" :> "j") @@ ("K" :> "k") @@ ("L" :> "l")
    @@ ("M" :> "m") @@ ("N" :> "n") @@ ("O" :> "o") @@ ("P" :> "p")
    @@ ("Q" :> "q") @@ ("R" :> "r") @@ ("S" :> "s") @@ ("T" :> "t")
    @@ ("U" :> "u") @@ ("V" :> "v") @@ ("W" :> "w") @@ ("X" :> "x")
    @@ ("Y" :> "y") @@ ("Z" :> "z")

toLower(str) ==
    [i \in 1..Len(str) |-> IF str[i] \in DOMAIN Lower THEN Lower[str[i]]
                           ELSE str[i]]

\* std::remove_if(..., ::isspace) and erase
RECURSIVE RemoveSpaces(_)
RemoveSpaces(str) ==
    IF str = <<>> THEN <<>>
    ELSE (IF Head(str) \in Whitespace THEN <<>> ELSE <<Head(str)>>)
            \o RemoveSpaces(Tail(str))

\* the Content-Type parseBody compares: lower case, cut at the first ';',
\* without whitespace
NormalizedContentType(header) ==
    LET lowered == toLower(header)
        semicolonPos == Find(lowered, ";")
    IN RemoveSpaces(IF semicolonPos = 0 THEN lowered
                    ELSE SubSeq(lowered, 1, semicolonPos - 1))

\* std::string::find(pattern, pos), positions counted from 0 as in the
\* code: the first position >= pos where pattern begins, -1 for npos
FindFrom(str, pattern, pos) ==
    LET hits == {k \in pos..(Len(str) - Len(pattern)) :
                    SubSeq(str, k + 1, k + Len(pattern)) = pattern}
    IN IF hits = {} THEN -1
       ELSE CHOOSE k \in hits : \A j \in hits : k <= j

\* str[pos], pos counted from 0; str[str.size()] is the terminating '\0'
CharAt(str, pos) == IF pos < Len(str) THEN str[pos + 1] ELSE "\\0"

\* str.substr(pos, n), pos counted from 0 and pos <= str.size()
Substr(str, pos, n) ==
    SubSeq(str, pos + 1, IF pos + n > Len(str) THEN Len(str) ELSE pos + n)

\* if (body[startPos] == '\r') startPos++; if (body[startPos] == '\n')
\* startPos++;
SkipLineEnd(body, startPos) ==
    LET p1 == IF CharAt(body, startPos) = "\r" THEN startPos + 1 ELSE startPos
    IN IF CharAt(body, p1) = "\n" THEN p1 + 1 ELSE p1

\* Request::parseMultipartPart: the end of the part's headers is looked for
\* as "\r\n\r\n", then as "\n\n"; then part.substr(headerEnd + 4), which
\* throws std::out_of_range when headerEnd + 4 is past the end of the part
parseMultipartPart(part) ==
    LET crlf == FindFrom(part, <<"\r", "\n", "\r", "\n">>, 0)
        headerEnd == IF crlf # -1 THEN crlf
                     ELSE FindFrom(part, <<"\n", "\n">>, 0)
    IN IF headerEnd = -1 THEN "returns"
       ELSE IF headerEnd + 4 > Len(part) THEN "throws"
       ELSE "returns"

\* the while (true) loop of Request::parseMultipartFormData
RECURSIVE MultipartLoop(_, _, _)
MultipartLoop(body, delimiter, startPos) ==
    LET nextDelimiter == FindFrom(body, delimiter, startPos)
        part == Substr(body, startPos, nextDelimiter - startPos)
        next == SkipLineEnd(body, nextDelimiter + Len(delimiter))
    IN IF nextDelimiter = -1 THEN "returns"
       ELSE IF parseMultipartPart(part) = "throws" THEN "throws"
       ELSE IF Substr(body, next, 2) = <<"-", "-">> THEN "returns"
       ELSE MultipartLoop(body, delimiter, next)

\* Request::parseMultipartFormData: the boundary from the header, without
\* its quotes; nothing without a boundary or without a first delimiter
parseMultipartFormData(contentTypeHeader, body) ==
    LET boundaryPos ==
            FindFrom(contentTypeHeader,
                     <<"b", "o", "u", "n", "d", "a", "r", "y", "=">>, 0)
        given == IF boundaryPos = -1 THEN <<>>
                 ELSE SubSeq(contentTypeHeader, boundaryPos + 10,
                             Len(contentTypeHeader))
        boundary == IF given # <<>> /\ given[1] = "\""
                    THEN SubSeq(given, 2, Len(given) - 1)
                    ELSE given
        delimiter == <<"-", "-">> \o boundary
        startPos == FindFrom(body, delimiter, 0)
    IN IF boundary = <<>> THEN "returns"
       ELSE IF startPos = -1 THEN "returns"
       ELSE MultipartLoop(body, delimiter,
                          SkipLineEnd(body, startPos + Len(delimiter)))

\* JsonValue::fromJson either parses the text or throws std::runtime_error
FromJsonOutcomes == {"parsed", "throws_std"}

\* Request::parseJsonBody: its catch (const std::exception&) takes what
\* fromJson throws
parseJsonBody(fromJson) == "returns"

\* Request::autoDetectContentType: trimmed.front() on a body that is all
\* whitespace reads an empty string, which is undefined: the library
\* returns the terminating '\0', or aborts when built with assertions
autoDetectContentType(body) ==
    IF RemoveSpaces(body) = <<>> THEN {"returns", "aborts"}
    ELSE {"returns"}

\* the Content-Types parseBody knows
FormUrlEncoded ==
    <<"a", "p", "p", "l", "i", "c", "a", "t", "i", "o", "n", "/", "x", "-",
      "w", "w", "w", "-", "f", "o", "r", "m", "-", "u", "r", "l", "e", "n",
      "c", "o", "d", "e", "d">>

ApplicationJson ==
    <<"a", "p", "p", "l", "i", "c", "a", "t", "i", "o", "n", "/", "j", "s",
      "o", "n">>

MultipartFormData ==
    <<"m", "u", "l", "t", "i", "p", "a", "r", "t", "/", "f", "o", "r", "m",
      "-", "d", "a", "t", "a">>

TextPlain ==
    <<"t", "e", "x", "t", "/", "p", "l", "a", "i", "n">>

\* Request::parseBody: the ways the call can end.  Nothing is done on an
\* empty body; otherwise the normalized Content-Type chooses the parser,
\* none means auto-detection, an unknown one stores the raw body.
parseBody(contentTypeHeader, body) ==
    LET contentType == NormalizedContentType(contentTypeHeader)
    IN IF body = <<>> THEN {"returns"}
       ELSE IF contentType = FormUrlEncoded THEN {"returns"}
       ELSE IF contentType = ApplicationJson
            THEN {parseJsonBody(o) : o \in FromJsonOutcomes}
       ELSE IF contentType = MultipartFormData
            THEN {parseMultipartFormData(contentTypeHeader, body)}
       ELSE IF contentType = TextPlain THEN {"returns"}
       ELSE IF contentType = <<>> THEN autoDetectContentType(body)
       ELSE {"returns"}

\* the values of the Content-Type header: none, each known type, one with
\* capitals and a charset, an unknown one, multipart with no boundary, with
\* the boundary B, with a lone quote as boundary
ContentTypeHeaders ==
    {<<>>,
     <<"a", "p", "p", "l", "i", "c", "a", "t", "i", "o", "n", "/", "j", "s",
       "o", "n">>,
     <<"A", "p", "p", "l", "i", "c", "a", "t", "i", "o", "n", "/", "J", "S",
       "O", "N", ";", " ", "c", "h", "a", "r", "s", "e", "t", "=", "U", "T",
       "F", "-", "8">>,
     <<"a", "p", "p", "l", "i", "c", "a", "t", "i", "o", "n", "/", "x", "-",
       "w", "w", "w", "-", "f", "o", "r", "m", "-", "u", "r", "l", "e", "n",
       "c", "o", "d", "e", "d">>,
     <<"t", "e", "x", "t", "/", "p", "l", "a", "i", "n">>,
     <<"i", "m", "a", "g", "e", "/", "p", "n", "g">>,
     <<"m", "u", "l", "t", "i", "p", "a", "r", "t", "/", "f", "o", "r", "m",
       "-", "d", "a", "t", "a">>,
     <<"m", "u", "l", "t", "i", "p", "a", "r", "t", "/", "f", "o", "r", "m",
       "-", "d", "a", "t", "a", ";", " ", "b", "o", "u", "n", "d", "a", "r",
       "y", "=", "B">>,
     <<"m", "u", "l", "t", "i", "p", "a", "r", "t", "/", "f", "o", "r", "m",
       "-", "d", "a", "t", "a", ";", " ", "b", "o", "u", "n", "d", "a", "r",
       "y", "=", "\"">>}

\* bodies: empty, blank, JSON, broken JSON, a JSON array, a form, text, and
\* multipart bodies whose parts end their headers with "\r\n\r\n", with
\* "\n\n" and two characters, with "\n\n" and nothing, or not at all
BodyTexts ==
    {<<>>,
     <<" ">>,
     <<"{", "\"", "a", "\"", ":", "1", "}">>,
     <<"{", "b", "a", "d">>,
     <<"[", "1", "]">>,
     <<"a", "=", "1", "&", "b", "=", "2">>,
     <<"t", "e", "x", "t">>,
     <<"-", "-", "B", "\r", "\n", "h", "\r", "\n", "\r", "\n", "v", "\r",
       "\n", "-", "-", "B", "-", "-">>,
     <<"-", "-", "B", "\n", "h", "\n", "\n", "v", "v", "\n", "-", "-", "B",
       "-", "-">>,
     <<"-", "-", "B", "\n", "h", "\n", "\n", "-", "-", "B", "-", "-">>,
     <<"-", "-", "B">>,
     <<"-", "-", "B", "\n", "h", "\n", "-", "-", "B", "\n">>}

\* a Request is given its Content-Type header and its body
SetRequest(header, body) ==
    /\ bstage = "idle"
    /\ bstage' = "set"
    /\ bhdr' = header
    /\ bbody' = body
    /\ UNCHANGED bout
    /\ UNCHANGED <<poolVars, routeVars, srvVars, respVars, stopVars, lockVars,
                   logVars, recvVars, parseVars, nestVars, sdtorVars, raceVars, instVars>>

\* request.parseBody()
ParseBody ==
    /\ bstage = "set"
    /\ bstage' = "done"
    /\ bout' \in parseBody(bhdr, bbody)
    /\ UNCHANGED <<bhdr, bbody>>
    /\ UNCHANGED <<poolVars, routeVars, srvVars, respVars, stopVars, lockVars,
                   logVars, recvVars, parseVars, nestVars, sdtorVars, raceVars, instVars>>

ParseBodyNext ==
    \/ \E header \in ContentTypeHeaders, body \in BodyTexts :
          SetRequest(header, body)
    \/ ParseBody

SpecParseBody == Init /\ [][ParseBodyNext]_vars

C27_SuccessAlwaysOk ==
    result # NoResult =>
        /\ res.body \in {mpToJson(result), toJson(result),
                         "{\"status\":\"ok\", \"message\":\"Success\"}"}
        /\ result["status"] = "ok"
        /\ result["message"] = "Success"


(***************************************************************************)
(* The thread pool: shutdown drains the queue.                             *)
(***************************************************************************)
\* the identities of the closures addTask has put into the queue: those it
\* has returned true for and those it is about to
EnqueuedIds == accepted \cup {carg[c].id : c \in {x \in Callers : cpc[x] = "notify"}}

\* C28: a worker leaves its loop only with the shutdown flag set and the
\* queue empty, holding no closure; from then on every closure addTask took
\* has been called or is being called by another worker; and when
\* ~ThreadPool has returned the queue is empty and every accepted closure
\* has been called.
C28_ShutdownDrainsQueue ==
    [][/\ \A w \in Workers :
             (wpc[w] # "exited" /\ wpc'[w] = "exited")
                 => /\ ~pool_running_ /\ tasks_ = <<>>
                    /\ wtask[w] = NoTask
                    /\ tasks_' = <<>>
       /\ (\E w \in Workers : wpc'[w] = "exited")
             => /\ tasks_' = <<>>
                /\ \A i \in EnqueuedIds' :
                      execCount'[i] = 1 \/ i \in HeldIds'
       /\ dpc' = "done"
             => /\ tasks_' = <<>>
                /\ HeldIds' = {}
                /\ \A i \in EnqueuedIds' : execCount'[i] = 1]_vars

\* the pool is shutting down with an accepted closure still in the queue,
\* and a worker in the locked block is about to take it instead of leaving
C28_Witness ==
    /\ dpc = "joining"
    /\ ~pool_running_
    /\ tasks_ # <<>>
    /\ Head(tasks_).id \in accepted
    /\ \E w \in Workers : wpc[w] = "wait" /\ mtx_ = WorkerThread(w)


(***************************************************************************)
(* The thread pool with closures that submit to the pool running them.     *)
(***************************************************************************)
\* the closure the worker w is calling calls addTask:
\* std::unique_lock<std::mutex> lock(mtx_) on the worker's own thread
TaskAddTaskLock(w) ==
    /\ alive
    /\ wpc[w] = "run"
    /\ wtask[w].kind \in TaskKinds
    /\ nextId <= MaxSubmit
    /\ mtx_ = NoThread
    /\ mtx_' = WorkerThread(w)
    /\ wpc' = [wpc EXCEPT ![w] = "tlocked"]
    /\ wsub' = [wsub EXCEPT ![w] = [id |-> nextId, kind |-> KindOf(nextId)]]
    /\ nextId' = nextId + 1
    /\ UNCHANGED <<tasks_, pool_running_, cvWaiting, wtask, cpc, carg, cret,
                   dpc, djoin, alive, accepted, rejected, execCount, caught>>
    /\ UNCHANGED <<routeVars, srvVars, respVars, stopVars, lockVars, logVars,
                   recvVars, parseVars, bodyVars, sdtorVars, raceVars, instVars>>

\* the two checks of addTask, then return false or emplace and unlock
TaskAddTaskCheck(w) ==
    /\ alive
    /\ wpc[w] = "tlocked"
    /\ mtx_ = WorkerThread(w)
    /\ LET ok == AddTaskAccepts(pool_running_, tasks_)
       IN /\ tasks_' = IF ok THEN Emplace(tasks_, wsub[w]) ELSE tasks_
          /\ mtx_' = NoThread
          /\ wpc' = [wpc EXCEPT ![w] = IF ok THEN "tnotify" ELSE "run"]
          /\ rejected' = IF ok THEN rejected ELSE rejected \cup {wsub[w].id}
          /\ wsub' = IF ok THEN wsub ELSE [wsub EXCEPT ![w] = NoTask]
    /\ UNCHANGED <<pool_running_, cvWaiting, wtask, cpc, carg, cret, dpc,
                   djoin, alive, nextId, accepted, execCount, caught>>
    /\ UNCHANGED <<routeVars, srvVars, respVars, stopVars, lockVars, logVars,
                   recvVars, parseVars, bodyVars, sdtorVars, raceVars, instVars>>

\* cv_.notify_one(); return true; and the closure goes on
TaskAddTaskNotify(w) ==
    /\ alive
    /\ wpc[w] = "tnotify"
    /\ \E n \in NotifyOne(cvWaiting, wpc) :
          /\ cvWaiting' = n.waiting
          /\ wpc' = [n.pcs EXCEPT ![w] = "run"]
    /\ accepted' = accepted \cup {wsub[w].id}
    /\ wsub' = [wsub EXCEPT ![w] = NoTask]
    /\ UNCHANGED <<tasks_, pool_running_, mtx_, wtask, cpc, carg, cret, dpc,
                   djoin, alive, nextId, rejected, execCount, caught>>
    /\ UNCHANGED <<routeVars, srvVars, respVars, stopVars, lockVars, logVars,
                   recvVars, parseVars, bodyVars, sdtorVars, raceVars, instVars>>

PoolNestedNext ==
    \/ PoolNext
    \/ \E w \in Workers : TaskAddTaskLock(w)
    \/ \E w \in Workers : TaskAddTaskCheck(w)
    \/ \E w \in Workers : TaskAddTaskNotify(w)

SpecPoolNested == Init /\ [][PoolNestedNext]_vars

\* the worker w is calling a closure, outside any addTask the closure makes
ExecutingTask(w) == wpc[w] \in {"run", "tnotify"}

\* C29: a worker calling a closure does not hold mtx_; whoever holds mtx_
\* can release it at once, whatever closures are being called; and while
\* closures are being called and mtx_ is free, a listener can enter addTask,
\* a worker at the top of its loop can enter the locked block, and a
\* closure can enter addTask on the pool that runs it.
C29_NoLockWhileExecuting ==
    /\ \A w \in Workers : ExecutingTask(w) => mtx_ # WorkerThread(w)
    /\ (alive /\ mtx_ # NoThread) => ENABLED (PoolNestedNext /\ mtx_' = NoThread)
    /\ (alive /\ mtx_ = NoThread /\ \E w \in Workers : ExecutingTask(w))
          => /\ \A c \in Callers :
                   (cpc[c] = "idle" /\ nextId <= MaxSubmit /\ dpc # "done")
                       => ENABLED Submit(c)
             /\ \A w \in Workers : wpc[w] = "lock" => ENABLED WorkerLock(w)
             /\ \A w \in Workers :
                   (wpc[w] = "run" /\ nextId <= MaxSubmit)
                       => ENABLED TaskAddTaskLock(w)

\* one closure's own addTask has been accepted, another closure is being
\* called, and a listener is inside the locked block of addTask
C29_Witness ==
    \E w1, w2 \in Workers, c \in Callers :
        /\ w1 # w2
        /\ wpc[w1] = "tnotify"
        /\ wpc[w2] = "run"
        /\ cpc[c] = "locked"
        /\ mtx_ = CallerThread(c)


(***************************************************************************)
(* The thread pool at the capacity of the source: the queue discipline.    *)
(***************************************************************************)
\* const int maxTasks_ = 10000; the value the source gives the capacity
maxTasksOfSource == 10000

\* if (tasks_.size() >= static_cast<size_t>(maxTasks_)) at that capacity
QueueFullOfSource(q) == Len(q) >= maxTasksOfSource

\* the locked block of addTask at the capacity of the source: the two
\* checks, then either return false or emplace and lock.unlock()
AddTaskCheckOfSource(c) ==
    /\ alive
    /\ cpc[c] = "locked"
    /\ mtx_ = CallerThread(c)
    /\ LET ok == pool_running_ /\ ~QueueFullOfSource(tasks_)
       IN /\ tasks_' = IF ok THEN Emplace(tasks_, carg[c]) ELSE tasks_
          /\ mtx_' = NoThread
          /\ cpc' = [cpc EXCEPT ![c] = IF ok THEN "notify" ELSE "idle"]
          /\ cret' = [cret EXCEPT ![c] = IF ok THEN "none" ELSE "false"]
          /\ rejected' = IF ok THEN rejected ELSE rejected \cup {carg[c].id}
    /\ UNCHANGED <<pool_running_, cvWaiting, wpc, wtask, carg, dpc, djoin,
                   alive, nextId, accepted, execCount, caught>>
    /\ UNCHANGED <<routeVars, srvVars, respVars, stopVars, lockVars, logVars,
                   recvVars, parseVars, bodyVars, nestVars, sdtorVars, raceVars, instVars>>

\* listeners submit and workers dequeue and call, while the pool lives
FifoNext ==
    \/ \E c \in Callers : Submit(c)
    \/ \E c \in Callers : AddTaskCheckOfSource(c)
    \/ \E c \in Callers : AddTaskNotify(c)
    \/ \E w \in Workers : WorkerLock(w)
    \/ \E w \in Workers : WorkerBlock(w)
    \/ \E w \in Workers : WorkerSpuriousWake(w)
    \/ \E w \in Workers : WorkerDequeue(w)
    \/ \E w \in Workers : WorkerRunTask(w)

SpecFifo == Init /\ [][FifoNext]_vars

\* Closures are numbered in the order addTask takes mtx_ for them, which is
\* the order it accepts them in.
\* C30: the queue holds the accepted closures in the order of acceptance; a
\* worker removes the one accepted first, so every closure accepted before
\* it has left the queue already; and when a worker has called a closure,
\* every closure accepted before that one has been called or is held by
\* another worker - with a single worker, has been called.
C30_DequeuedInAcceptanceOrder ==
    [][/\ \A i, j \in 1..Len(tasks_') : i < j => tasks_'[i].id < tasks_'[j].id
       /\ \A w \in Workers :
             (wpc[w] = "wait" /\ wpc'[w] = "run")
                 => /\ wtask'[w] = Head(tasks_)
                    /\ \A i \in QueuedIds' : wtask'[w].id < i
                    /\ \A i \in EnqueuedIds :
                          i < wtask'[w].id => i \notin QueuedIds'
       /\ \A w \in Workers :
             (wpc[w] = "run" /\ wpc'[w] = "lock")
                 => \A i \in EnqueuedIds :
                       (i < wtask[w].id /\ execCount'[i] = 0)
                           => \E w2 \in Workers \ {w} :
                                 wpc'[w2] = "run" /\ wtask'[w2].id = i]_vars

\* a worker is calling the closure accepted first, the two accepted after it
\* wait in the queue in that order, and the other worker, in the locked
\* block, is about to remove one of them
C30_Witness ==
    /\ \E w \in Workers : wpc[w] = "run" /\ wtask[w].id = 1
    /\ Len(tasks_) = 2
    /\ tasks_[1].id = 2 /\ tasks_[2].id = 3
    /\ \E w \in Workers : wpc[w] = "wait" /\ mtx_ = WorkerThread(w)


(***************************************************************************)
(* The thread pool: accepted closures are called.                          *)
(***************************************************************************)
\* C31: with threads scheduled and closures that end, every closure addTask
\* has put into the queue - every one it returns true for - is eventually
\* called by a worker; no notification is lost between a worker's test of
\* the wait predicate and notify_one.
\* (A closure once taken stays taken and once called stays called, so every
\* taken closure is eventually called exactly when, again and again, all
\* the closures taken so far have been called.)
C31_AcceptedEventuallyRuns ==
    []<>(\A i \in EnqueuedIds : execCount[i] = 1)

\* the pool is running, every worker has blocked in cv_.wait at some point
\* and is now back in its loop or blocked again, and a closure addTask
\* returned true for has been called
C31_Witness ==
    /\ pool_running_
    /\ dpc = "constructed"
    /\ cvWaiting = Workers
    /\ \E i \in accepted : execCount[i] = 1


(***************************************************************************)
(* handleClient: one response and one close per connection.                *)
(***************************************************************************)
\* C32: a connection whose task has been executed has its socket closed,
\* once, after at most one response was written to it and at most one
\* handler invoked for it, on every path through handleClient; a task still
\* in handleClient has closed nothing and written nothing yet.
C32_ClosedOnceAfterResponse ==
    /\ \A c \in ConnIds : execCount[c] <= 1
    /\ \A c \in ConnIds : execCount[c] = 1 => conn[c] = "closed"
    /\ \A c \in ConnIds : sent[c] # NoWire => conn[c] = "closed"
    /\ \A w \in Workers :
          hc[w].pc = "send"
              => /\ hc[w].lookups <= 1
                 /\ conn[wtask[w].id] = "open"
                 /\ sent[wtask[w].id] = NoWire


(***************************************************************************)
(* Registration overwrites its own key and no other.                       *)
(***************************************************************************)
\* C33: a call of get/post/put/del for (method, path) makes its handler the
\* one findHandler returns for exactly that pair - replacing an earlier
\* one - and leaves what findHandler returns for every other pair as it was.
C33_RegistrationIsLocal ==
    [][regCount' # regCount =>
          \E m \in LookupMethods, p \in RegPaths, h \in Handlers :
              /\ lastReg' = (<<m, p>> :> h) @@ lastReg
              /\ findHandler(routes_', m, p) = h
              /\ \A m2 \in LookupMethods, p2 \in LookupPaths :
                    <<m2, p2>> # <<m, p>>
                        => findHandler(routes_', m2, p2)
                               = findHandler(routes_, m2, p2)]_vars

\* two handlers registered under one method at two paths, each found at
\* its own path
C33_Witness ==
    \E m \in LookupMethods, p, q \in RegPaths :
        /\ p # q
        /\ regCount = 2
        /\ findHandler(routes_, m, p) \in Handlers
        /\ findHandler(routes_, m, q) \in Handlers
        /\ findHandler(routes_, m, p) # findHandler(routes_, m, q)


(***************************************************************************)
(* stop() and the accept loops.                                            *)
(***************************************************************************)
\* C34: once stop() has stopped a running server the IPv4 accept loop
\* eventually leaves its loop and run() returns, and no accept loop hands a
\* connection to the pool when running_ is false.
C34_StopEndsAcceptLoop ==
    /\ (stopPrints > 0) ~> (lpc["ipv4"] = "exited")
    /\ [][\A l \in Callers :
            (lpc[l] = "submit" /\ lpc'[l] = "addTask") => srv_running_]_vars


(***************************************************************************)
(* Server::signalHandler: SIGINT or SIGTERM while the server works.        *)
(***************************************************************************)
\* Server::signalHandler on the thread t the signal is delivered to:
\* instance_->stop(), then exit(0), which ends the process with every
\* other thread wherever it is
signalHandler(t) ==
    /\ alive
    /\ stopCalls < MaxStops
    /\ stopCalls' = stopCalls + 1
    /\ stopCaller' = t
    /\ IF srv_running_
       THEN /\ srv_running_' = FALSE
            /\ stopPrints' = stopPrints + 1
            /\ IF serverSocket_ # "-1"
               THEN /\ openFds' = openFds \ {serverSocket_}
                    /\ stopCloses' = stopCloses + 1
               ELSE UNCHANGED <<openFds, stopCloses>>
            /\ serverSocket_' = "-1"
       ELSE UNCHANGED <<srv_running_, serverSocket_, openFds, stopCloses,
                        stopPrints>>
    /\ alive' = FALSE
    /\ UNCHANGED <<lpc, lsock, conn, sent, hc>>
    /\ UNCHANGED <<tasks_, pool_running_, mtx_, cvWaiting, wpc, wtask, cpc,
                   carg, cret, dpc, djoin, nextId, accepted, rejected,
                   execCount, caught>>
    /\ UNCHANGED <<routeVars, respVars, lockVars, logVars, recvVars,
                   parseVars, bodyVars, nestVars, sdtorVars, raceVars, instVars>>

\* the server at work until a signal arrives
SignalNext ==
    \/ alive /\ ServerNext
    \/ \E t \in StopThreads : signalHandler(t)

SpecSignal == Init /\ [][SignalNext]_vars

\* C35: when a signal has ended the process, every connection task that
\* had started has sent its response and closed its socket: no worker was
\* inside handleClient, and no socket a task had started on is left open.
C35_SignalSparesInFlight ==
    ~alive =>
        /\ \A w \in Workers : ~InHandleClient(w)
        /\ \A c \in ConnIds :
              recvd[c] = "data" => (sent[c] # NoWire /\ conn[c] = "closed")


(***************************************************************************)
(* Server::~Server and the destruction of the members, in the reverse of   *)
(* their declaration: routes_, threadpool_, logMutex_, routesMutex_.       *)
(***************************************************************************)
\* ~Server is entered, on the thread that owns the Server, once run() has
\* returned or was never called: the line is printed and stop() is next
ServerDtorEnter ==
    /\ sdpc = "constructed"
    /\ lpc["ipv4"] \in {"created", "failed", "exited"}
    /\ sdpc' = "stop"
    /\ UNCHANGED <<poolVars, routeVars, srvVars, respVars, stopVars, lockVars,
                   logVars, recvVars, parseVars, bodyVars, nestVars, raceVars, instVars>>

\* stop() has returned and the body of ~Server is over: routes_, declared
\* last, is destroyed first
ServerDtorRoutes ==
    /\ sdpc = "stop"
    /\ stopCalls > 0
    /\ stopCaller = AppThread
    /\ sdpc' = "routes_"
    /\ UNCHANGED <<poolVars, routeVars, srvVars, respVars, stopVars, lockVars,
                   logVars, recvVars, parseVars, bodyVars, nestVars, raceVars, instVars>>

\* ~ThreadPool has returned: logMutex_ and routesMutex_ are destroyed
ServerDtorMutexes ==
    /\ sdpc = "routes_"
    /\ dpc = "done"
    /\ sdpc' = "done"
    /\ UNCHANGED <<poolVars, routeVars, srvVars, respVars, stopVars, lockVars,
                   logVars, recvVars, parseVars, bodyVars, nestVars, raceVars, instVars>>

\* routes_ is being or has been destroyed
RoutesDestroyed == sdpc \in {"routes_", "done"}

\* the server at work, another thread stopping it, and its owner destroying
\* it; the detached IPv6 thread and the workers go on meanwhile
DestroyNext ==
    \/ /\ routes_ = <<>>
       /\ lpc["ipv4"] = "created"
       /\ sdpc = "constructed"
       /\ get(<<"/", "u">>, "h1")
    \/ \E r4, r6 \in SetupOutcomes :
          lpc["ipv4"] = "created" /\ sdpc = "constructed" /\ Run(r4, r6)
    \/ RunSetRunning
    \/ \E l \in Callers : LoopTest(l)
    \/ \E l \in Callers : AcceptOk(l)
    \/ \E l \in Callers : AcceptFail(l)
    \/ \E l \in Callers : ListenerAddTask(l)
    \/ \E l \in Callers : AddTaskCheck(l)
    \/ \E l \in Callers : AddTaskNotify(l)
    \/ \E l \in Callers : ListenerContinue(l)
    \/ srv_running_ /\ sdpc = "constructed" /\ stopCalls = 0 /\ stop(WorkerThread(1))
    \/ \E w \in Workers : WorkerLock(w)
    \/ \E w \in Workers : WorkerBlock(w)
    \/ \E w \in Workers : WorkerDequeue(w)
    \/ \E w \in Workers : WorkerExit(w)
    \/ \E w \in Workers : HandleClientRecvNothing(w)
    \/ \E w \in Workers : HandleClientDispatch(w)
    \/ \E w \in Workers : HandleClientRespond(w)
    \/ ServerDtorEnter
    \/ sdpc = "stop" /\ stopCaller # AppThread /\ stop(AppThread)
    \/ ServerDtorRoutes
    \/ sdpc = "routes_" /\ DtorLock
    \/ DtorStop
    \/ DtorJoin
    \/ ServerDtorMutexes

SpecDestroy == Init /\ [][DestroyNext]_vars

\* C36: when the destruction of routes_ and of the members after it has
\* begun, every connection task is over and the IPv6 accept thread has
\* ended: no task is queued or being handed to the pool, no worker is
\* inside handleClient, and no accept loop is running.
C36_MembersOutliveTasks ==
    RoutesDestroyed =>
        /\ tasks_ = <<>>
        /\ \A w \in Workers : ~InHandleClient(w)
        /\ \A l \in Callers : lpc[l] \notin {"loop", "accept", "submit", "addTask"}


(***************************************************************************)
(* The peer address handleClient reads through its pointer argument.       *)
(***************************************************************************)
\* clientAddress, local to one iteration of the accept loop l, exists and
\* holds the address accept() returned with the socket c: the loop is
\* between that accept() and the end of the iteration
ClientAddressHolds(l, c) ==
    lsock[l] = c /\ lpc[l] \in {"submit", "addTask"}

\* what getClientIP(clientAddress) can read in the task of the socket c,
\* which got &clientAddress of the loop that accepted c: the address of c
\* while that object lives; afterwards the storage is reused by the later
\* iterations or gone with run(), and the read yields zeroes or the address
\* of any connection accepted since
getClientIP(c) ==
    IF \E l \in Callers : ClientAddressHolds(l, c)
    THEN {c}
    ELSE {0} \cup {d \in ConnIds : d >= c /\ conn[d] # "unused"}

\* C37: the address handleClient reads for a socket, when it logs the
\* request and when it prints the access line, is the address accept()
\* returned with that socket.
C37_PeerAddressIsOwn ==
    [][\A c \in ConnIds :
          ((recvd[c] = "none" /\ recvd'[c] = "data")
              \/ (sent[c] = NoWire /\ sent'[c] # NoWire))
                  => getClientIP(c) = {c}]_vars


(***************************************************************************)
(* Server::stop statement by statement, called by two threads.             *)
(***************************************************************************)
\* if (!running_) return;
StopTest(t) ==
    /\ stpc[t] = "out"
    /\ stopCalls < MaxStops
    /\ stopCalls' = stopCalls + 1
    /\ stopCaller' = t
    /\ stpc' = [stpc EXCEPT ![t] = IF srv_running_ THEN "set" ELSE "returned"]
    /\ UNCHANGED <<stopCloses, stopPrints>>
    /\ UNCHANGED srvVars
    /\ UNCHANGED <<poolVars, routeVars, respVars, lockVars, logVars, recvVars,
                   parseVars, bodyVars, nestVars, sdtorVars, instVars>>

\* running_ = false; std::cout << "Server stopped." << std::endl;
StopSetRunning(t) ==
    /\ stpc[t] = "set"
    /\ srv_running_' = FALSE
    /\ stopPrints' = stopPrints + 1
    /\ stpc' = [stpc EXCEPT ![t] = "socket"]
    /\ UNCHANGED <<stopCalls, stopCloses, stopCaller>>
    /\ UNCHANGED <<serverSocket_, openFds, lpc, lsock, conn, sent, hc>>
    /\ UNCHANGED <<poolVars, routeVars, respVars, lockVars, logVars, recvVars,
                   parseVars, bodyVars, nestVars, sdtorVars, instVars>>

\* if (serverSocket_ >= 0)
StopSocketTest(t) ==
    /\ stpc[t] = "socket"
    /\ stpc' = [stpc EXCEPT ![t] = IF serverSocket_ # "-1" THEN "close"
                                                          ELSE "returned"]
    /\ UNCHANGED stopVars
    /\ UNCHANGED srvVars
    /\ UNCHANGED <<poolVars, routeVars, respVars, lockVars, logVars, recvVars,
                   parseVars, bodyVars, nestVars, sdtorVars, instVars>>

\* close(serverSocket_);
StopClose(t) ==
    /\ stpc[t] = "close"
    /\ openFds' = openFds \ {serverSocket_}
    /\ stopCloses' = stopCloses + 1
    /\ stpc' = [stpc EXCEPT ![t] = "reset"]
    /\ UNCHANGED <<stopCalls, stopPrints, stopCaller>>
    /\ UNCHANGED <<srv_running_, serverSocket_, lpc, lsock, conn, sent, hc>>
    /\ UNCHANGED <<poolVars, routeVars, respVars, lockVars, logVars, recvVars,
                   parseVars, bodyVars, nestVars, sdtorVars, instVars>>

\* serverSocket_ = -1; and stop() returns
StopReset(t) ==
    /\ stpc[t] = "reset"
    /\ serverSocket_' = "-1"
    /\ stpc' = [stpc EXCEPT ![t] = "returned"]
    /\ UNCHANGED stopVars
    /\ UNCHANGED <<srv_running_, openFds, lpc, lsock, conn, sent, hc>>
    /\ UNCHANGED <<poolVars, routeVars, respVars, lockVars, logVars, recvVars,
                   parseVars, bodyVars, nestVars, sdtorVars, instVars>>

\* the server is set up and run, and two threads call stop() on it
StopRaceNext ==
    \/ \E r4, r6 \in SetupOutcomes : lpc["ipv4"] = "created" /\ Run(r4, r6)
    \/ RunSetRunning
    \/ \E l \in Callers : LoopTest(l)
    \/ \E l \in Callers : AcceptFail(l)
    \/ \E t \in Stoppers : StopTest(t)
    \/ \E t \in Stoppers : StopSetRunning(t)
    \/ \E t \in Stoppers : StopSocketTest(t)
    \/ \E t \in Stoppers : StopClose(t)
    \/ \E t \in Stoppers : StopReset(t)

SpecStopRace == Init /\ [][StopRaceNext]_vars

\* C38: with stop() called by two threads at once, the IPv4 listening
\* socket is closed at most once and one call only takes the server from
\* running to stopped.
C38_ConcurrentStopClosesOnce ==
    /\ stopCloses <= 1
    /\ stopPrints <= 1


(***************************************************************************)
(* Server::instance_ over constructions and destructions of Servers.       *)
(***************************************************************************)
\* Server::Server: instance_ = this;
ServerCtor(s) ==
    /\ signalled = "no"
    /\ serverState[s] = "none"
    /\ \A r \in ServerIds : r < s => serverState[r] # "none"
    /\ serverState' = [serverState EXCEPT ![s] = "live"]
    /\ instance_' = s
    /\ UNCHANGED signalled
    /\ UNCHANGED <<poolVars, routeVars, srvVars, respVars, stopVars, lockVars,
                   logVars, recvVars, parseVars, bodyVars, nestVars, sdtorVars,
                   raceVars>>

\* Server::~Server: stop(); instance_ is left as it is
ServerDtor(s) ==
    /\ signalled = "no"
    /\ serverState[s] = "live"
    /\ serverState' = [serverState EXCEPT ![s] = "destroyed"]
    /\ UNCHANGED <<instance_, signalled>>
    /\ UNCHANGED <<poolVars, routeVars, srvVars, respVars, stopVars, lockVars,
                   logVars, recvVars, parseVars, bodyVars, nestVars, sdtorVars,
                   raceVars>>

\* Server::signalHandler: if (instance_) instance_->stop(); exit(0);
InstanceSignal ==
    /\ signalled = "no"
    /\ signalled' = IF instance_ = 0 THEN "no_instance"
                    ELSE IF serverState[instance_] = "live" THEN "stop_on_live"
                    ELSE "stop_on_destroyed"
    /\ UNCHANGED <<instance_, serverState>>
    /\ UNCHANGED <<poolVars, routeVars, srvVars, respVars, stopVars, lockVars,
                   logVars, recvVars, parseVars, bodyVars, nestVars, sdtorVars,
                   raceVars>>

InstanceNext ==
    \/ \E s \in ServerIds : ServerCtor(s)
    \/ \E s \in ServerIds : ServerDtor(s)
    \/ InstanceSignal

SpecInstance == Init /\ [][InstanceNext]_vars

\* C39: instance_ is null or points to a live Server, and signalHandler
\* never calls stop() on a destroyed Server.
C39_InstanceIsNullOrLive ==
    /\ instance_ = 0 \/ serverState[instance_] = "live"
    /\ signalled # "stop_on_destroyed"


(***************************************************************************)
(* The number of Content-Length headers in the serialized response.        *)
(***************************************************************************)
\* the positions of the Content-Length header lines in the output
ContentLengthLines(w) ==
    {i \in 1..Len(w.lines) : IsContentLength(w.lines[i])}

\* C40: whatever methods the handler called on its Response, file() followed
\* by json(), text() or error() included, the output of buildResponse holds
\* exactly one Content-Length header line, and no Content-Length line in it
\* gives a value other than the length of the body.
C40_SingleContentLength ==
    wire # NoWire =>
        /\ Cardinality(ContentLengthLines(wire)) = 1
        /\ \A i \in ContentLengthLines(wire) :
              wire.lines[i] = "Content-Length: " \o ToString(Len(wire.body))

================================================================
